---- MODULE Spec2Model ----
(***************************************************************************)
(* Model of the numerical core of gofr-np: the curve-fitting capability    *)
(* (src/app/math_engine/capabilities/curvefit.py) with its fitted-model    *)
(* store, the financial capability (capabilities/financial.py: binomial    *)
(* option pricing, bonds, present value, rate conversion and technical     *)
(* indicators), the routing of the elementwise capability                  *)
(* (capabilities/elementwise.py) and the tool registry                     *)
(* (src/app/mcp_server/tool_registry.py).                                  *)
(*                                                                         *)
(* Financial values are exact rationals [k, n, d].  Rates are counted in   *)
(* units of ln2/dt and volatilities in units of ln2/sqrt(dt), so that      *)
(* every exponential of the binomial tree is a power of two.               *)
(*                                                                         *)
(* Numbers.  A float64 is a record [k, v]: k = "fin" with an integer v, or *)
(* one of the IEEE specials "nan", "inf", "ninf".  Data points are small   *)
(* integers; a request carries a unit xscale and the x the code sees is    *)
(* xscale * x[i], so that magnitudes at which exp() overflows are in the   *)
(* input space without leaving 32-bit integer arithmetic.                  *)
(*                                                                         *)
(* Least squares.  The degree-1 fit of the outlier filter is computed      *)
(* exactly: with D = n*Sxx - Sx^2 every residual is an integer over D.     *)
(* The sum of squared errors that an individual fitter ends with is not    *)
(* computed (ln, exp and 1000 Adam steps have no integer form): it is      *)
(* drawn, per fitter, from the outcomes that fitter's code can produce,    *)
(* and calculate_metrics turns it into the AIC exactly as the code does.   *)
(***************************************************************************)
EXTENDS Integers, Sequences, FiniteSets, TLC

VARIABLES
    fitted_models,  \* self._fitted_models: model_id -> FitResult
    last,           \* outcome of the handler call that completed last
    trace,          \* history: inserts and predictions, in completion order
    ncalls,         \* number of handler calls started
    capabilities,   \* ToolRegistry._capabilities: name -> capability
    tool_to_capability,  \* ToolRegistry._tool_to_capability: tool -> name
    tools           \* ToolRegistry._tools: tool name -> ToolDefinition

\* the three dictionaries of a ToolRegistry
registry == <<capabilities, tool_to_capability, tools>>

vars == <<fitted_models, last, trace, ncalls, capabilities, tool_to_capability, tools>>

(* ------------------------------ bounds -------------------------------- *)

MaxLen == 5          \* longest x / y array of a request
MaxCalls == 4        \* handler calls per behaviour of Spec
NumIds == 2          \* size of the identifier space of Spec

(* ------------------------- program constants -------------------------- *)

MinPoints == 3           \* curvefit.py:167, 179, 194
MaxAutoDegree == 10      \* curvefit.py:209
ZNum == 1349             \* 0.6745 * 2 = 1.349  (curvefit.py:189)
ZDen == 3500             \* 3.5 (curvefit.py:191), same scale as ZNum
ExpOverflow == 710       \* float64: exp(u) = inf from u > 709.78
AdamStepInv == 100       \* 1 / learning_rate 0.01 (curvefit.py:398)

(* ------------------------------ floats -------------------------------- *)

Fin(v) == [k |-> "fin", v |-> v]
NaN == [k |-> "nan", v |-> 0]
PosInf == [k |-> "inf", v |-> 0]
NegInf == [k |-> "ninf", v |-> 0]

\* np.isfinite
isfinite(a) == a.k = "fin"

\* IEEE-754 a < b, the comparison min() applies to the keys
FLtMutFiniteOnly(a, b) == a.k = "fin" /\ b.k = "fin" /\ a.v < b.v

FLt(a, b) ==
    IF a.k = "nan" \/ b.k = "nan" THEN FALSE
    ELSE IF a.k = "ninf" THEN b.k # "ninf"
    ELSE IF a.k = "inf" THEN FALSE
    ELSE IF b.k = "ninf" THEN FALSE
    ELSE IF b.k = "inf" THEN TRUE
    ELSE a.v < b.v

\* IEEE-754 a <= b
FLe(a, b) ==
    IF a.k = "nan" \/ b.k = "nan" THEN FALSE
    ELSE IF a.k = "ninf" THEN TRUE
    ELSE IF b.k = "inf" THEN TRUE
    ELSE IF a.k = "inf" \/ b.k = "ninf" THEN FALSE
    ELSE a.v <= b.v

(* ----------------------------- sequences ------------------------------ *)

RECURSIVE SumSeq(_)
SumSeq(s) == IF s = <<>> THEN 0 ELSE Head(s) + SumSeq(Tail(s))

Abs(i) == IF i < 0 THEN -i ELSE i

Min2(a, b) == IF a < b THEN a ELSE b

\* s[mask]: the elements of s at the indices where mask holds, in order
RECURSIVE Compress(_, _)
Compress(s, mask) ==
    IF s = <<>> THEN <<>>
    ELSE (IF Head(mask) THEN <<Head(s)>> ELSE <<>>) \o Compress(Tail(s), Tail(mask))

CountTrue(mask) == Cardinality({i \in DOMAIN mask : mask[i]})

\* integer payloads of an all-finite float array
Ints(s) == [i \in DOMAIN s |-> s[i].v]

\* twice np.median of a non-empty integer sequence
Median2(s) ==
    LET srt == SortSeq(s, LAMBDA a, b : a < b)
        n == Len(s)
    IN  IF n % 2 = 1 THEN 2 * srt[(n + 1) \div 2]
        ELSE srt[n \div 2] + srt[n \div 2 + 1]

(* --------------------- handle_fit: input validation ------------------- *)

\* curvefit.py:161-180.  "" when the request passes, else the error raised.
ValidateFitMutOrder(req) ==
    IF req.hasx /\ req.hasy /\ Len(req.x) # Len(req.y) THEN "same_length"
    ELSE IF ~req.hasx \/ ~req.hasy \/ req.x = <<>> \/ req.y = <<>> THEN "required"
    ELSE IF Len(req.x) < MinPoints THEN "at_least_3"
    ELSE IF CountTrue([i \in DOMAIN req.x |-> isfinite(req.x[i]) /\ isfinite(req.y[i])])
              < MinPoints
    THEN "too_many_invalid"
    ELSE ""

\* mask = np.isfinite(x) & np.isfinite(y)
FiniteMask(req) == [i \in DOMAIN req.x |-> isfinite(req.x[i]) /\ isfinite(req.y[i])]

ValidateFit(req) ==
    IF ~req.hasx \/ ~req.hasy \/ req.x = <<>> \/ req.y = <<>> THEN "required"
    ELSE IF Len(req.x) # Len(req.y) THEN "same_length"
    ELSE IF Len(req.x) < MinPoints THEN "at_least_3"
    ELSE IF CountTrue(FiniteMask(req)) < MinPoints THEN "too_many_invalid"
    ELSE ""

\* x, y after line 175-178: the pairs with both coordinates finite
FiniteX(req) == Ints(Compress(req.x, FiniteMask(req)))
FiniteY(req) == Ints(Compress(req.y, FiniteMask(req)))

(* --------------------- handle_fit: outlier filter --------------------- *)

\* D = n*Sxx - Sx^2, the denominator of the least-squares line
LsqDen(x) ==
    LET n == Len(x)
    IN  n * SumSeq([i \in DOMAIN x |-> x[i] * x[i]]) - SumSeq(x) * SumSeq(x)

\* the scale the residuals below are multiplied by
ResScale(x) == IF LsqDen(x) = 0 THEN Len(x) ELSE LsqDen(x)

\* np.abs(y - np.polyval(np.polyfit(x, y, 1), x)), times ResScale(x).
\* With all x equal the design matrix has rank 1 and the least-squares
\* prediction is mean(y) at every point.
Residuals(x, y) ==
    LET n == Len(x)
        Sx == SumSeq(x)
        Sy == SumSeq(y)
        Sxx == SumSeq([i \in DOMAIN x |-> x[i] * x[i]])
        Sxy == SumSeq([i \in DOMAIN x |-> x[i] * y[i]])
        D == LsqDen(x)
    IN  IF D = 0 THEN [i \in DOMAIN x |-> Abs(n * y[i] - Sy)]
        ELSE [i \in DOMAIN x |->
                Abs(D * y[i] - (n * Sxy - Sx * Sy) * x[i] - (Sy * Sxx - Sx * Sxy))]

\* mad > 1e-9 (line 188).  mad = Median2 / (2 * ResScale) and ResScale < 10^8
\* on the data of this model, so a non-zero median is above 1e-9.
MadAboveEps(x, y) == Median2(Residuals(x, y)) > 0

\* modified_z_score < 3.5 (lines 189-191):
\* 0.6745 * r / mad < 3.5  <=>  1349 * (scaled r) < 3500 * Median2
CleanMaskMutNoFactor(x, y) ==
    LET r == Residuals(x, y)
        m2 == Median2(r)
    IN  [i \in DOMAIN x |-> 2000 * r[i] < ZDen * m2]

CleanMask(x, y) ==
    LET r == Residuals(x, y)
        m2 == Median2(r)
    IN  [i \in DOMAIN x |-> ZNum * r[i] < ZDen * m2]

\* which branch of lines 188-200 is taken
FilterBranch(x, y) ==
    IF MadAboveEps(x, y)
    THEN IF CountTrue(CleanMask(x, y)) >= MinPoints THEN "filtered" ELSE "too_few"
    ELSE "mad_zero"

KeepMaskMutNoFallback(x, y) == CleanMask(x, y)

\* the mask of the points handed to the fitters (x_clean, y_clean)
KeepMask(x, y) ==
    IF FilterBranch(x, y) = "filtered" THEN CleanMask(x, y)
    ELSE [i \in DOMAIN x |-> TRUE]

XClean(x, y) == Compress(x, KeepMask(x, y))
YClean(x, y) == Compress(y, KeepMask(x, y))

(* ------------------ numerical outcome of one fitter ------------------- *)

\* What a fitter's arithmetic ends with: "zero" (sse < 1e-10), "lvl" with
\* v = ln(sse / n), "nan" (non-finite parameters, hence sse = nan), "raise"
\* (an exception inside the fitter's try block), "skip" (fitter not run).
Zero == [k |-> "zero", v |-> 0]
Lvl(v) == [k |-> "lvl", v |-> v]
Diverged == [k |-> "nan", v |-> 0]
Raised == [k |-> "raise", v |-> 0]
Skip == [k |-> "skip", v |-> 0]

MaxLevel == 1
Levels == {Lvl(v) : v \in 0..MaxLevel}

\* sst < 1e-10 (line 299): n * sst = n*Syy - Sy^2, an integer
SstZero(y) ==
    Len(y) * SumSeq([i \in DOMAIN y |-> y[i] * y[i]]) - SumSeq(y) * SumSeq(y) = 0

calculate_metricsMutNoSstCheck(y, sse, n_params) ==
    [rmse |-> sse,
     r_squared |->
        IF sse.k = "nan" THEN "nan"
        ELSE IF sse.k = "zero" THEN "1.0"
        ELSE "1-sse/sst",
     aic |->
        IF sse.k = "nan" THEN NaN
        ELSE IF sse.k = "zero" THEN NegInf
        ELSE Fin(Len(y) * sse.v + 2 * n_params)]

\* curvefit.py:288-311
calculate_metrics(y, sse, n_params) ==
    LET n == Len(y)
    IN  [rmse |-> sse,   \* np.sqrt(sse / n), kept as the class of sse
         r_squared |->
            IF SstZero(y) THEN "0.0"
            ELSE IF sse.k = "nan" THEN "nan"
            ELSE IF sse.k = "zero" THEN "1.0"
            ELSE "1-sse/sst",
         aic |->
            IF sse.k = "nan" THEN NaN          \* nan < 1e-10 is False; n*log(nan)
            ELSE IF sse.k = "zero" THEN NegInf \* line 306-307
            ELSE Fin(n * sse.v + 2 * n_params)]

(* ------------------------------ fitters ------------------------------- *)

\* FitResult (lines 28-37).  params stands for the fitted coefficient
\* vector: it is determined by the family, the data fitted and the
\* numerical outcome.  predict_fn closes over params only.
FitResult(family, degree, x, y, xscale, sse, n_params) ==
    LET m == calculate_metrics(y, sse, n_params)
    IN  [family |-> family, degree |-> degree,
         params |-> [x |-> x, y |-> y, xscale |-> xscale, sse |-> sse],
         r_squared |-> m.r_squared, rmse |-> m.rmse, aic |-> m.aic]

NoFit ==
    [family |-> "none", degree |-> 0,
     params |-> [x |-> <<>>, y |-> <<>>, xscale |-> 1, sse |-> Skip],
     r_squared |-> "", rmse |-> Skip, aic |-> NaN]

\* an Optional[FitResult]: ok = FALSE is None
Some(fit) == [ok |-> TRUE, fit |-> fit]
None == [ok |-> FALSE, fit |-> NoFit]

\* every residual of the least-squares line is zero
Collinear(x, y) == Residuals(x, y) = [i \in DOMAIN x |-> 0]

\* equal x carry equal y
Consistent(x, y) == \A i, j \in DOMAIN x : x[i] = x[j] => y[i] = y[j]

Distinct(x) == Cardinality({x[i] : i \in DOMAIN x})

\* the outcomes np.polyfit / np.polyval can end with on (x, y) at degree d
PolyOutcomes(x, y, d) ==
    IF Collinear(x, y) \/ (Consistent(x, y) /\ d >= Distinct(x) - 1) THEN {Zero}
    ELSE IF d = 1 \/ ~Consistent(x, y) THEN Levels
    ELSE {Zero} \cup Levels

\* curvefit.py:313-351
fit_polynomial(x, y, xscale, degree, sse) ==
    IF sse.k = "raise" THEN None
    ELSE Some(FitResult("polynomial", degree, x, y, xscale, sse, degree + 1))

\* b moves by the learning rate in the first Adam step: b * x overflows exp
\* when |x| / 100 exceeds 709.78 and the step goes upwards
ExpCanOverflow(x, xscale) ==
    \E i \in DOMAIN x : Abs(x[i]) * xscale > ExpOverflow * AdamStepInv

ExpOutcomes(x, y, xscale) ==
    {Raised, Zero} \cup Levels
        \cup (IF ExpCanOverflow(x, xscale) THEN {Diverged} ELSE {})

\* curvefit.py:353-425: no check of the final a, b, c or of the metrics
fit_exponential(x, y, xscale, sse) ==
    IF sse.k = "raise" THEN None
    ELSE Some(FitResult("exponential", 0, x, y, xscale, sse, 3))

AllEqual(y) == \A i, j \in DOMAIN y : y[i] = y[j]

\* outcomes of the log-linear regressions of lines 434-439 and 460-468; the
\* regression does not run ("skip") when the domain check returns None first
LogOutcomes(x, y) ==
    IF \E i \in DOMAIN x : x[i] <= 0 THEN {Skip}
    ELSE IF AllEqual(y) THEN {Zero} ELSE {Zero} \cup Levels

PowerOutcomes(x, y) ==
    IF (\E i \in DOMAIN x : x[i] <= 0) \/ (\E i \in DOMAIN y : y[i] <= 0) THEN {Skip}
    ELSE IF AllEqual(y) THEN {Zero} ELSE {Zero} \cup Levels

\* curvefit.py:427-451
fit_logarithmic_MutNoDomain(x, y, xscale, sse) ==
    Some(FitResult("logarithmic", 0, x, y, xscale, sse, 2))

fit_logarithmic(x, y, xscale, sse) ==
    IF \E i \in DOMAIN x : x[i] <= 0 THEN None
    ELSE IF sse.k = "raise" THEN None
    ELSE Some(FitResult("logarithmic", 0, x, y, xscale, sse, 2))

\* curvefit.py:453-480
fit_power(x, y, xscale, sse) ==
    IF (\E i \in DOMAIN x : x[i] <= 0) \/ (\E i \in DOMAIN y : y[i] <= 0) THEN None
    ELSE IF sse.k = "raise" THEN None
    ELSE Some(FitResult("power", 0, x, y, xscale, sse, 2))

\* k = 1 and x0 = median(x) at the first step: exp(-k (x - x0)) is inf at a
\* point more than 709.78 below the median, its gradient 0 * inf = nan
SigmoidOverflows(x, xscale) ==
    \E i \in DOMAIN x : (Median2(x) - 2 * x[i]) * xscale > 2 * ExpOverflow

SigmoidOutcomes(x, y, xscale) ==
    IF SigmoidOverflows(x, xscale) THEN {Raised, Diverged}
    ELSE {Raised, Zero} \cup Levels

\* curvefit.py:482-524: no check of the final L, k, x0, b or of the metrics
fit_sigmoid(x, y, xscale, sse) ==
    IF sse.k = "raise" THEN None
    ELSE Some(FitResult("sigmoid", 0, x, y, xscale, sse, 4))

(* ---------------- handle_fit: candidates and selection ---------------- *)

\* arguments.get("degree") of a request that carries no degree (line 159)
NoDegree == -1

\* range(min_deg, max_deg + 1) of lines 209-212: `degree if degree else ...`
\* takes the else branch for None and for 0, both being falsy
PolyDegrees(req, n) ==
    IF req.degree # NoDegree /\ req.degree # 0 THEN <<req.degree>>
    ELSE [i \in 1..Min2(MaxAutoDegree, n - 2) |-> i]

TriesMutAlways(req, family) == TRUE

Tries(req, family) == req.model_type = "auto" \/ req.model_type = family

\* the numerical outcomes of one call: one per fitter that runs
NumOutcomes(req, x, y) ==
    LET degs == IF Tries(req, "polynomial") THEN PolyDegrees(req, Len(x)) ELSE <<>>
    IN  [poly : UNION {{f \in [DOMAIN degs -> {Zero} \cup Levels] :
                            \A i \in DOMAIN degs : f[i] \in allowed[i]}
                       : allowed \in {[i \in DOMAIN degs |-> PolyOutcomes(x, y, degs[i])]}},
         exp : IF Tries(req, "exponential")
               THEN ExpOutcomes(x, y, req.xscale) ELSE {Skip},
         log : IF Tries(req, "logarithmic") THEN LogOutcomes(x, y) ELSE {Skip},
         power : IF Tries(req, "power") THEN PowerOutcomes(x, y) ELSE {Skip},
         sigmoid : IF Tries(req, "sigmoid")
                   THEN SigmoidOutcomes(x, y, req.xscale) ELSE {Skip}]

\* the list `candidates` of lines 205-225, in the order it is appended to
Candidates(req, x, y, num) ==
    LET degs == IF Tries(req, "polynomial") THEN PolyDegrees(req, Len(x)) ELSE <<>>
    IN  [i \in DOMAIN degs |-> fit_polynomial(x, y, req.xscale, degs[i], num.poly[i])]
        \o (IF Tries(req, "exponential")
            THEN <<fit_exponential(x, y, req.xscale, num.exp)>> ELSE <<>>)
        \o (IF Tries(req, "logarithmic")
            THEN <<fit_logarithmic(x, y, req.xscale, num.log)>> ELSE <<>>)
        \o (IF Tries(req, "power")
            THEN <<fit_power(x, y, req.xscale, num.power)>> ELSE <<>>)
        \o (IF Tries(req, "sigmoid")
            THEN <<fit_sigmoid(x, y, req.xscale, num.sigmoid)>> ELSE <<>>)

\* the fitter behind each entry of `candidates`, as [family, degree]
Attempted(req, n) ==
    LET degs == IF Tries(req, "polynomial") THEN PolyDegrees(req, n) ELSE <<>>
        one(f) == IF Tries(req, f) THEN <<[family |-> f, degree |-> 0]>> ELSE <<>>
    IN  [i \in DOMAIN degs |-> [family |-> "polynomial", degree |-> degs[i]]]
        \o one("exponential") \o one("logarithmic") \o one("power") \o one("sigmoid")

\* line 228: [c for c in candidates if c is not None]
IsSome(c) == c.ok
ValidCandidates(cands) ==
    LET v == SelectSeq(cands, IsSome) IN [i \in DOMAIN v |-> v[i].fit]

\* min(valid_candidates, key=lambda c: c.aic) (line 235): the first item,
\* replaced by a later one exactly when its key is < the key held
RECURSIVE MinFrom(_, _, _)
MinFrom(valid, i, best) ==
    IF i > Len(valid) THEN best
    ELSE MinFrom(valid, i + 1, IF FLt(valid[i].aic, valid[best].aic) THEN i ELSE best)

\* index in valid of the candidate min() returns; valid is non-empty
MinIndexMutLe(valid) ==
    CHOOSE i \in DOMAIN valid :
        /\ \A j \in DOMAIN valid : ~FLt(valid[j].aic, valid[i].aic)
        /\ \A j \in DOMAIN valid :
              (\A l \in DOMAIN valid : ~FLt(valid[l].aic, valid[j].aic)) => j <= i

MinIndex(valid) == MinFrom(valid, 2, 1)

(* ------------------------------ requests ------------------------------ *)

FitReq(hasx, x, hasy, y, model_type, degree, xscale) ==
    [hasx |-> hasx, x |-> x, hasy |-> hasy, y |-> y,
     model_type |-> model_type, degree |-> degree, xscale |-> xscale]

NoFitReq == FitReq(FALSE, <<>>, FALSE, <<>>, "", NoDegree, 1)

\* curve_predict arguments; model_id 0 is a missing or empty model_id.
\* shape is what the x argument is: "list" (a list of numbers, x holds it),
\* "scalar" (one number, x holds it as <<number>>), "text" (a list with an
\* element that is no number)
PredictReq(model_id, hasx, shape, x) ==
    [model_id |-> model_id, hasx |-> hasx, shape |-> shape, x |-> x]

NoPredictReq == PredictReq(0, FALSE, "list", <<>>)

\* uuid.uuid4().hex[:8] (line 240): any value of the identifier space
ModelIds == 1..NumIds

\* a model_id argument that is no "fit_" + 8 hex digits
ForeignId == NumIds + 1

(* --------------------------- handler results --------------------------- *)

NoNum == [poly |-> <<>>, exp |-> Skip, log |-> Skip, power |-> Skip, sigmoid |-> Skip]

NoLast ==
    [op |-> "none", status |-> "none", error |-> "", exc |-> "",
     req |-> NoFitReq, preq |-> NoPredictReq,
     ran_filter |-> FALSE, ran_fitters |-> FALSE,
     x |-> <<>>, y |-> <<>>, x_clean |-> <<>>, y_clean |-> <<>>, branch |-> "",
     attempted |-> <<>>, num |-> NoNum, candidates |-> <<>>,
     best |-> NoFit, best_index |-> 0,
     model_id |-> 0, was_key |-> FALSE, data_points |-> 0, outliers_removed |-> 0,
     y_pred |-> <<>>,
     args |-> <<>>, out |-> <<>>]   \* arguments and result of a stateless tool

\* predict_fn(x_new): the closure of lines 348, 422, 448, 477, 521 applied
predict_fn(fit, x_new) ==
    [i \in DOMAIN x_new |-> [family |-> fit.family, degree |-> fit.degree,
                             params |-> fit.params, at |-> x_new[i]]]

InsertEvent(id, fit) ==
    [op |-> "insert", model_id |-> id, fit |-> fit, x |-> <<>>, y_pred |-> <<>>]

PredictEvent(id, fit, x, y_pred) ==
    [op |-> "predict", model_id |-> id, fit |-> fit, x |-> x, y_pred |-> y_pred]

(* ------------------------------ handle_fit ----------------------------- *)

\* self._fitted_models[model_id] = best_fit (line 241)
Store(models, id, fit) == (id :> fit) @@ models

\* what lines 182-225 compute for a request that passed validation
Fitted(req, x, y, xc, yc, num, cands) ==
    [NoLast EXCEPT !.op = "fit", !.req = req,
                   !.ran_filter = TRUE, !.ran_fitters = TRUE,
                   !.x = x, !.y = y, !.x_clean = xc, !.y_clean = yc,
                   !.branch = FilterBranch(x, y),
                   !.attempted = Attempted(req, Len(xc)),
                   !.num = num, !.candidates = cands]

\* curvefit.py:154-259, the whole handler
handle_fit(Reqs, Ids) ==
    /\ ncalls < MaxCalls
    /\ \E req \in Reqs : \E err \in {ValidateFit(req)} :
        IF err # ""
        THEN /\ last' = [NoLast EXCEPT !.op = "fit", !.status = "error",
                                       !.error = err, !.exc = "InvalidInputError",
                                       !.req = req]
             /\ UNCHANGED <<fitted_models, trace>>
        ELSE \E x \in {FiniteX(req)} : \E y \in {FiniteY(req)} :
             \E xc \in {XClean(x, y)} : \E yc \in {YClean(x, y)} :
             \E num \in NumOutcomes(req, xc, yc) :
             \E cands \in {Candidates(req, xc, yc, num)} :
             \E valid \in {ValidCandidates(cands)} :
                IF valid = <<>>
                THEN /\ last' = [Fitted(req, x, y, xc, yc, num, cands) EXCEPT
                                    !.status = "error", !.error = "no_model",
                                    !.exc = "InvalidInputError"]
                     /\ UNCHANGED <<fitted_models, trace>>
                ELSE \E id \in Ids : \E bi \in {MinIndex(valid)} :
                     /\ fitted_models' = Store(fitted_models, id, valid[bi])
                     /\ trace' = Append(trace, InsertEvent(id, valid[bi]))
                     /\ last' = [Fitted(req, x, y, xc, yc, num, cands) EXCEPT
                            !.status = "ok",
                            !.best = valid[bi],
                            !.best_index = bi,
                            !.model_id = id,
                            !.was_key = id \in DOMAIN fitted_models,
                            !.data_points = Len(xc),
                            !.outliers_removed = Len(x) - Len(xc)]
    /\ ncalls' = ncalls + 1
    /\ UNCHANGED registry

(* ---------------------------- handle_predict --------------------------- *)

\* lines 266-270: "" or the error raised before the prediction
ValidatePredictMutLookupFirst(models, preq) ==
    IF preq.model_id \notin DOMAIN models THEN "not_found"
    ELSE IF ~preq.hasx THEN "predict_required"
    ELSE ""

ValidatePredict(models, preq) ==
    IF preq.model_id = 0 \/ ~preq.hasx THEN "predict_required"
    ELSE IF preq.model_id \notin DOMAIN models THEN "not_found"
    ELSE ""

\* what fit.predict_fn(x_in) does (lines 348, 422, 448, 477, 521): numpy
\* raises on an element that is no number, maps a list to a list and a
\* single number to a single number (ndarray.tolist() of a 0-d result)
PredictRaises(preq) == preq.shape = "text"
PredictIsList(preq) == preq.shape = "list"

\* curvefit.py:261-284, the whole handler (handlers are plain functions
\* called from one event loop: a call runs to completion)
handle_predict(PReqs) ==
    /\ ncalls < MaxCalls
    /\ \E preq \in PReqs : \E err \in {ValidatePredict(fitted_models, preq)} :
        IF err # ""
        THEN /\ last' = [NoLast EXCEPT !.op = "predict", !.status = "error",
                                       !.error = err, !.exc = "InvalidInputError",
                                       !.preq = preq]
             /\ UNCHANGED trace
        ELSE IF PredictRaises(preq)
        THEN \* lines 275-278: except Exception -> InvalidInputError
             /\ last' = [NoLast EXCEPT !.op = "predict", !.status = "error",
                                       !.error = "prediction_failed",
                                       !.exc = "InvalidInputError",
                                       !.preq = preq, !.model_id = preq.model_id]
             /\ UNCHANGED trace
        ELSE IF ~PredictIsList(preq)
        THEN \* line 282: len(y_pred) of a float, outside the try block
             /\ last' = [NoLast EXCEPT !.op = "predict", !.status = "error",
                                       !.error = "no_len", !.exc = "TypeError",
                                       !.preq = preq, !.model_id = preq.model_id]
             /\ UNCHANGED trace
        ELSE \E fit \in {fitted_models[preq.model_id]} :
             \E y_pred \in {predict_fn(fit, preq.x)} :
             /\ last' = [NoLast EXCEPT !.op = "predict", !.status = "ok",
                            !.preq = preq, !.model_id = preq.model_id,
                            !.best = fit, !.y_pred = y_pred]
             /\ trace' = Append(trace, PredictEvent(preq.model_id, fit, preq.x, y_pred))
    /\ ncalls' = ncalls + 1
    /\ UNCHANGED registry
    /\ UNCHANGED fitted_models

(* ============================ financial.py ============================= *)

(* ------------------------- exact real arithmetic ----------------------- *)

\* Option, bond and indicator values are exact rationals [n, d] in lowest
\* terms with d > 0; QNaN is IEEE nan (0/0, inf - inf, inf * 0).
RECURSIVE Gcd(_, _)
Gcd(a, b) == IF b = 0 THEN a ELSE Gcd(b, a % b)

Rat(n, d) ==
    LET g == Gcd(Abs(n), Abs(d))
        sg == IF d < 0 THEN -1 ELSE 1
    IN  [k |-> "fin", n |-> sg * (n \div g), d |-> sg * (d \div g)]

QInt(i) == [k |-> "fin", n |-> i, d |-> 1]
QNaN == [k |-> "nan", n |-> 0, d |-> 1]

Lcm(a, b) == (a \div Gcd(a, b)) * b

QAdd(a, b) ==
    IF a.k = "nan" \/ b.k = "nan" THEN QNaN
    ELSE LET l == Lcm(a.d, b.d) IN Rat(a.n * (l \div a.d) + b.n * (l \div b.d), l)

QNeg(a) == IF a.k = "nan" THEN QNaN ELSE [a EXCEPT !.n = -a.n]

QSub(a, b) == QAdd(a, QNeg(b))

QMul(a, b) ==
    IF a.k = "nan" \/ b.k = "nan" THEN QNaN
    ELSE LET g1 == Gcd(Abs(a.n), b.d)
             g2 == Gcd(Abs(b.n), a.d)
         IN  Rat((a.n \div g1) * (b.n \div g2), (a.d \div g2) * (b.d \div g1))

\* a / b.  Where the code divides by 0.0 (a tree with u = d) the numerator
\* is 0.0 or nan, and numpy's float64 quotient is nan.
QDiv(a, b) ==
    IF a.k = "nan" \/ b.k = "nan" \/ b.n = 0 THEN QNaN
    ELSE QMul(a, Rat(b.d, b.n))

\* IEEE a < b and a <= b: false when either side is nan
QLt(a, b) ==
    /\ a.k = "fin" /\ b.k = "fin"
    /\ LET l == Lcm(a.d, b.d) IN a.n * (l \div a.d) < b.n * (l \div b.d)

QLe(a, b) == a.k = "fin" /\ b.k = "fin" /\ ~QLt(b, a)

\* IEEE a == b
QEq(a, b) == a.k = "fin" /\ b.k = "fin" /\ a = b

\* np.maximum(a, b): nan if either is nan
QMax(a, b) ==
    IF a.k = "nan" \/ b.k = "nan" THEN QNaN
    ELSE IF QLt(a, b) THEN b ELSE a

\* a ** e for an integer e >= 0
RECURSIVE QPow(_, _)
QPow(a, e) == IF e = 0 THEN QInt(1) ELSE QMul(a, QPow(a, e - 1))

RECURSIVE QSum(_)
QSum(s) == IF s = <<>> THEN QInt(0) ELSE QAdd(Head(s), QSum(Tail(s)))

(* ------------------- _calculate_binomial_price ------------------------- *)

\* np.exp(k * ln 2) = 2^k.  Rates r, q are carried in units of ln(2)/dt,
\* sigma in units of ln(2)/sqrt(dt) and dividend times in units of dt
\* (dt = T/N), so that every exp() of lines 455-466 and 489 is a power of 2.
Exp2(k) == IF k >= 0 THEN QPow(QInt(2), k) ELSE QPow(Rat(1, 2), -k)

\* line 454: [d for d in dividends if 0 < d["time"] <= T]; T is N steps
IsValidDivMutFromZero(dv, N) == 0 <= dv.time /\ dv.time <= N
IsValidDiv(dv, N) == 0 < dv.time /\ dv.time <= N
ValidDivs(dividends, N) == SelectSeq(dividends, LAMBDA dv : IsValidDiv(dv, N))

\* line 455: sum(amount * exp(-r * time)) over the valid dividends
PvDivs(valid, r) ==
    QSum([i \in DOMAIN valid |-> QMul(QInt(valid[i].amount), Exp2(-r * valid[i].time))])

\* lines 488-491: sum(amount * exp(-r * (time - t))) over the valid
\* dividends with time > t
PvDivsAfter(valid, r, t) ==
    QSum([i \in DOMAIN valid |->
            IF valid[i].time > t
            THEN QMul(QInt(valid[i].amount), Exp2(-r * (valid[i].time - t)))
            ELSE QInt(0)])

\* lines 455-457: S_tree = S - pv_divs
STree(a) == QSub(QInt(a.S), PvDivs(ValidDivs(a.dividends, a.N), a.r))

\* lines 462-466.  With sigma = 0, u - d = 0 and p is +-inf or nan; then
\* p * v + (1 - p) * w is nan for all finite v, w >= 0, as with p = nan.
TreeU(a) == Exp2(a.sigma)
TreeD(a) == Exp2(-a.sigma)
TreePMutNoRate(a) ==
    IF a.sigma = 0 THEN QNaN
    ELSE QDiv(QSub(Exp2(-a.q), TreeD(a)), QSub(TreeU(a), TreeD(a)))

TreeP(a) ==
    IF a.sigma = 0 THEN QNaN
    ELSE QDiv(QSub(Exp2(a.r - a.q), TreeD(a)), QSub(TreeU(a), TreeD(a)))
TreeDiscount(a) == Exp2(-a.r)

\* the locals of one pricing run that the loop reads (lines 454-466)
TreeParams(a) ==
    [S_tree |-> STree(a), u |-> TreeU(a), d |-> TreeD(a), p |-> TreeP(a),
     discount |-> TreeDiscount(a), valid_divs |-> ValidDivs(a.dividends, a.N),
     r |-> a.r, K |-> a.K, N |-> a.N, option_type |-> a.option_type]

\* S_tree * u**(j - i) * d**i  (lines 470, 497), node i of layer j
TreePrice(tp, j, i) ==
    QMul(tp.S_tree, QMul(QPow(tp.u, j - i), QPow(tp.d, i)))

\* np.maximum(0, price - K) / np.maximum(0, K - price); every option_type
\* other than "call" takes the put branch (lines 474-477, 500-503)
Payoff(tp, price) ==
    IF tp.option_type = "call" THEN QMax(QInt(0), QSub(price, QInt(tp.K)))
    ELSE QMax(QInt(0), QSub(QInt(tp.K), price))

\* lines 469-477: the N+1 option values at maturity
TerminalValues(tp) == [i \in 1..(tp.N + 1) |-> Payoff(tp, TreePrice(tp, tp.N, i - 1))]

ContinuationMutKeep(tp, ov) ==
    [i \in 1..Len(ov) |-> QMul(tp.discount, ov[i])]

\* line 493
Continuation(tp, ov) ==
    [i \in 1..(Len(ov) - 1) |->
        QMul(tp.discount,
             QAdd(QMul(tp.p, ov[i]), QMul(QSub(QInt(1), tp.p), ov[i + 1])))]

\* lines 487-491 and 496-503: intrinsic value at the nodes of layer j
Intrinsic(tp, j) ==
    LET pv_remaining == PvDivsAfter(tp.valid_divs, tp.r, j)
    IN  [i \in 1..(j + 1) |-> Payoff(tp, QAdd(TreePrice(tp, j, i - 1), pv_remaining))]

\* one pass of the loop body, lines 487-506: option_values of layer j
InductionStep(tp, style, ov, j) ==
    LET continuation == Continuation(tp, ov)
    IN  IF style = "american"
        THEN LET intrinsic == Intrinsic(tp, j)
             IN  [i \in 1..(j + 1) |-> QMax(continuation[i], intrinsic[i])]
        ELSE continuation

\* lines 486-506: layers[j + 1] is option_values after step j; layers[N + 1]
\* is the terminal layer
RECURSIVE Induction(_, _, _, _)
Induction(tp, style, j, layers) ==
    IF j < 0 THEN layers
    ELSE Induction(tp, style, j - 1,
                   [layers EXCEPT ![j + 1] = InductionStep(tp, style, layers[j + 2], j)])

TreeLayers(a, style) ==
    LET tp == TreeParams(a)
    IN  Induction(tp, style, a.N - 1,
                  [j \in 1..(a.N + 1) |-> IF j = a.N + 1 THEN TerminalValues(tp) ELSE <<>>])

\* lines 508-515: the node values captured while the loop passes j = 2, 1;
\* 0.0 (lines 480-484) for a layer the loop does not pass
NodeValue(a, layers, j, i) ==
    IF j <= a.N - 1 THEN layers[j + 1][i + 1] ELSE QInt(0)

\* lines 523-545: Delta, Gamma and daily Theta from the captured nodes
TreeGreeks(a, layers) ==
    LET valid == ValidDivs(a.dividends, a.N)
        price == layers[1][1]
        St == STree(a)
        u == TreeU(a)
        d == TreeD(a)
        pv_rem_1 == PvDivsAfter(valid, a.r, 1)
        S_u == QAdd(QMul(St, u), pv_rem_1)
        S_d == QAdd(QMul(St, d), pv_rem_1)
        pv_rem_2 == PvDivsAfter(valid, a.r, 2)
        S_uu == QAdd(QMul(QMul(St, u), u), pv_rem_2)
        S_ud == QAdd(St, pv_rem_2)
        S_dd == QAdd(QMul(QMul(St, d), d), pv_rem_2)
        v10 == NodeValue(a, layers, 1, 0)
        v11 == NodeValue(a, layers, 1, 1)
        v20 == NodeValue(a, layers, 2, 0)
        v21 == NodeValue(a, layers, 2, 1)
        v22 == NodeValue(a, layers, 2, 2)
        delta_u == QDiv(QSub(v20, v21), QSub(S_uu, S_ud))
        delta_d == QDiv(QSub(v21, v22), QSub(S_ud, S_dd))
        h == QMul(Rat(1, 2), QSub(S_uu, S_dd))
        dt == Rat(a.T, a.N)
    IN  [delta |-> QDiv(QSub(v10, v11), QSub(S_u, S_d)),
         gamma |-> QDiv(QSub(delta_u, delta_d), h),
         theta |-> QDiv(QDiv(QSub(v21, price), QMul(QInt(2), dt)), QInt(365))]

calculate_binomial_priceMutStrict(a, style) ==
    IF a.T < 0
    THEN [status |-> "ok", tree |-> FALSE, layers |-> <<>>,
          price |-> IF a.option_type = "call" THEN QMax(QInt(0), QInt(a.S - a.K))
                    ELSE QMax(QInt(0), QInt(a.K - a.S)),
          delta |-> QInt(0), gamma |-> QInt(0), theta |-> QInt(0)]
    ELSE IF QLe(STree(a), QInt(0))
    THEN [status |-> "raise", tree |-> FALSE, layers |-> <<>>,
          price |-> QNaN, delta |-> QNaN, gamma |-> QNaN, theta |-> QNaN]
    ELSE LET layers == TreeLayers(a, style)
             g == TreeGreeks(a, layers)
         IN  [status |-> "ok", tree |-> TRUE, layers |-> layers,
              price |-> layers[1][1],
              delta |-> g.delta, gamma |-> g.gamma, theta |-> g.theta]

\* financial.py:442-545 with return_greeks=True.  status "raise" is the
\* ValueError of line 459.
calculate_binomial_price(a, style) ==
    IF a.T <= 0
    THEN [status |-> "ok", tree |-> FALSE, layers |-> <<>>,
          price |-> IF a.option_type = "call" THEN QMax(QInt(0), QInt(a.S - a.K))
                    ELSE QMax(QInt(0), QInt(a.K - a.S)),
          delta |-> QInt(0), gamma |-> QInt(0), theta |-> QInt(0)]
    ELSE IF QLe(STree(a), QInt(0))
    THEN [status |-> "raise", tree |-> FALSE, layers |-> <<>>,
          price |-> QNaN, delta |-> QNaN, gamma |-> QNaN, theta |-> QNaN]
    ELSE LET layers == TreeLayers(a, style)
             g == TreeGreeks(a, layers)
         IN  [status |-> "ok", tree |-> TRUE, layers |-> layers,
              price |-> layers[1][1],
              delta |-> g.delta, gamma |-> g.gamma, theta |-> g.theta]

\* an option_price request after the conversions of lines 549-558
OptionArgs(S, K, T, r, q, dividends, sigma, option_type, style, N) ==
    [S |-> S, K |-> K, T |-> T, r |-> r, q |-> q, dividends |-> dividends,
     sigma |-> sigma, option_type |-> option_type, style |-> style, N |-> N]

ValidateOptionMutNoSigma(a) ==
    IF a.S < 0 THEN "spot_negative"
    ELSE IF a.K < 0 THEN "strike_negative"
    ELSE IF a.N < 1 THEN "steps"
    ELSE ""

\* lines 560-567: the first failing check, "" when all pass
ValidateOption(a) ==
    IF a.S < 0 THEN "spot_negative"
    ELSE IF a.K < 0 THEN "strike_negative"
    ELSE IF a.sigma < 0 THEN "sigma_negative"
    ELSE IF a.N < 1 THEN "steps"
    ELSE ""

\* the price of a run with sigma + 0.001 or r + 0.001 (lines 580, 591): for
\* T <= 0 the same intrinsic value as the base run; on a tree the bumped
\* parameter is not a power of 2 and the value is left symbolic
QBump == [k |-> "bump", n |-> 0, d |-> 1]

BumpedPrice(base) == IF base.tree THEN QBump ELSE base.price

\* lines 587, 598: (bumped - price) / 0.001 * 0.01
BumpGreek(bumped, price) ==
    IF bumped.k = "bump" THEN QBump
    ELSE QMul(QDiv(QSub(bumped, price), Rat(1, 1000)), Rat(1, 100))

NoOptionOut ==
    [runs |-> 0, tree |-> FALSE, layers |-> <<>>, price |-> QNaN,
     delta |-> QNaN, gamma |-> QNaN, theta |-> QNaN, vega |-> QNaN, rho |-> QNaN]

\* financial.py:547-612
handle_option_price(Reqs) ==
    /\ ncalls < MaxCalls
    /\ \E a \in Reqs : \E err \in {ValidateOption(a)} :
        IF err # ""
        THEN last' = [NoLast EXCEPT !.op = "option_price", !.status = "error",
                                    !.error = err, !.exc = "ValueError",
                                    !.args = a, !.out = NoOptionOut]
        ELSE \E base \in {calculate_binomial_price(a, a.style)} :
             IF base.status = "raise"
             THEN last' = [NoLast EXCEPT !.op = "option_price", !.status = "error",
                              !.error = "pv_dividends", !.exc = "ValueError",
                              !.args = a, !.out = [NoOptionOut EXCEPT !.runs = 1]]
             ELSE last' = [NoLast EXCEPT !.op = "option_price", !.status = "ok",
                              !.args = a,
                              !.out = [runs |-> 3, tree |-> base.tree,
                                       layers |-> base.layers, price |-> base.price,
                                       delta |-> base.delta, gamma |-> base.gamma,
                                       theta |-> base.theta,
                                       vega |-> BumpGreek(BumpedPrice(base), base.price),
                                       rho |-> BumpGreek(BumpedPrice(base), base.price)]]
    /\ ncalls' = ncalls + 1
    /\ UNCHANGED registry
    /\ UNCHANGED <<fitted_models, trace>>

(* ------------------------------- bonds --------------------------------- *)

\* a bond_price request after the conversions of lines 617-621; frequency is
\* an integer, the other arguments are exact reals
BondArgs(face_value, coupon_rate, frequency, years, ytm) ==
    [face_value |-> face_value, coupon_rate |-> coupon_rate,
     frequency |-> frequency, years |-> years, ytm |-> ytm]

\* lines 623-630: the first failing check, "" when all pass
ValidateBond(a) ==
    IF QLt(a.face_value, QInt(0)) THEN "face_value"
    ELSE IF a.frequency <= 0 THEN "frequency"
    ELSE IF QLe(a.years, QInt(0)) THEN "years"
    ELSE IF QLe(a.ytm, QInt(-1)) THEN "ytm"
    ELSE ""

\* int(x) of a float: truncation toward zero
IntOf(x) == IF x.n >= 0 THEN x.n \div x.d ELSE -((-x.n) \div x.d)

\* line 633
NPeriods(a) == IntOf(QMul(a.years, QInt(a.frequency)))

NoBondOut ==
    [discounted |-> FALSE, n_periods |-> 0, cash_flows |-> <<>>, price |-> QNaN,
     macaulay_duration |-> QNaN, modified_duration |-> QNaN, convexity |-> QNaN]

\* lines 632-683 for n_periods >= 1
BondMetrics(a) ==
    LET n_periods == NPeriods(a)
        r == QDiv(a.ytm, QInt(a.frequency))
        c == QDiv(QMul(a.coupon_rate, a.face_value), QInt(a.frequency))
        df == [t \in 1..n_periods |-> QDiv(QInt(1), QPow(QAdd(QInt(1), r), t))]
        cash_flows == [t \in 1..n_periods |->
                          IF t = n_periods THEN QAdd(c, a.face_value) ELSE c]
        pv_flows == [t \in 1..n_periods |-> QMul(cash_flows[t], df[t])]
        price == QSum(pv_flows)
        mac_duration_periods ==
            QDiv(QSum([t \in 1..n_periods |-> QMul(QInt(t), pv_flows[t])]), price)
        mac_duration_years == QDiv(mac_duration_periods, QInt(a.frequency))
        convexity_sum == QSum([t \in 1..n_periods |-> QMul(QInt(t * (t + 1)), pv_flows[t])])
    IN  [discounted |-> TRUE, n_periods |-> n_periods, cash_flows |-> cash_flows,
         price |-> price,
         macaulay_duration |-> mac_duration_years,
         modified_duration |-> QDiv(mac_duration_years, QAdd(QInt(1), r)),
         convexity |-> QDiv(QDiv(convexity_sum, QMul(price, QPow(QAdd(QInt(1), r), 2))),
                            QInt(a.frequency * a.frequency))]

\* financial.py:615-683.  With n_periods = 0 the arrays are empty and
\* cash_flows[-1] (line 648) raises IndexError.
handle_bond_price(Reqs) ==
    /\ ncalls < MaxCalls
    /\ \E a \in Reqs : \E err \in {ValidateBond(a)} :
        IF err # ""
        THEN last' = [NoLast EXCEPT !.op = "bond_price", !.status = "error",
                                    !.error = err, !.exc = "ValueError",
                                    !.args = a, !.out = NoBondOut]
        ELSE IF NPeriods(a) = 0
        THEN last' = [NoLast EXCEPT !.op = "bond_price", !.status = "error",
                                    !.error = "index", !.exc = "IndexError",
                                    !.args = a,
                                    !.out = [NoBondOut EXCEPT !.discounted = TRUE]]
        ELSE last' = [NoLast EXCEPT !.op = "bond_price", !.status = "ok",
                                    !.args = a, !.out = BondMetrics(a)]
    /\ ncalls' = ncalls + 1
    /\ UNCHANGED registry
    /\ UNCHANGED <<fitted_models, trace>>

(* ------------------------ technical indicators ------------------------- *)

\* Python None, as a list element
PyNone == [k |-> "none", n |-> 0, d |-> 1]

\* prices = np.array(prices_list, dtype=np.float64), line 710
PriceArray(prices_list) == [i \in DOMAIN prices_list |-> QInt(prices_list[i])]

\* np.convolve(data, np.ones(w) / w, mode="valid") for 1 <= w <= len(data):
\* element i is the mean of data[i .. i + w - 1]
ConvolveValid(data, w) ==
    [i \in 1..(Len(data) - w + 1) |->
        QDiv(QSum([k \in 1..w |-> data[i + k - 1]]), QInt(w))]

\* lines 725-726, 854-855, 881-882: np.full(n, np.nan) with [w-1:] = res
PadNaN(n, w, res) == [i \in 1..n |-> IF i < w THEN QNaN ELSE res[i - w + 1]]

\* lines 721-726
SmaValues(prices, window) ==
    PadNaN(Len(prices), window, ConvolveValid(prices, window))

\* lines 751-753, 813-816: res[0] = data[0]; res[i] = alpha * data[i] +
\* (1 - alpha) * res[i-1]
RECURSIVE EmaFrom(_, _, _)
EmaFrom(data, alpha, res) ==
    IF Len(res) = Len(data) THEN res
    ELSE EmaFrom(data, alpha,
                 Append(res, QAdd(QMul(alpha, data[Len(res) + 1]),
                                  QMul(QSub(QInt(1), alpha), res[Len(res)]))))

calc_ema(data, span) == EmaFrom(data, Rat(2, span + 1), <<data[1]>>)

\* lines 768-770
Deltas(prices) == [i \in 1..(Len(prices) - 1) |-> QSub(prices[i + 1], prices[i])]
Gains(prices) == [i \in 1..(Len(prices) - 1) |-> QMax(Deltas(prices)[i], QInt(0))]
Losses(prices) ==
    [i \in 1..(Len(prices) - 1) |->
        IF QLt(Deltas(prices)[i], QInt(0)) THEN QNeg(Deltas(prices)[i]) ELSE QInt(0)]

\* lines 776-785: Wilder average; entry i + 1 is avg[i], 0 below the window
RECURSIVE WilderFrom(_, _, _, _)
WilderFrom(moves, window, n, avg) ==
    IF Len(avg) = n THEN avg
    ELSE LET i == Len(avg)
         IN  WilderFrom(moves, window, n,
                Append(avg,
                    IF i < window THEN QInt(0)
                    ELSE IF i = window
                    THEN QDiv(QSum(SubSeq(moves, 1, window)), QInt(window))
                    ELSE QDiv(QAdd(QMul(avg[i], QInt(window - 1)), moves[i]),
                              QInt(window))))

\* lines 787-797
RsiValues(prices, window) ==
    LET n == Len(prices)
        avg_gain == WilderFrom(Gains(prices), window, n, <<>>)
        avg_loss == WilderFrom(Losses(prices), window, n, <<>>)
    IN  [i \in 1..n |->
            IF i <= window THEN QNaN
            ELSE IF QLt(QInt(0), avg_loss[i])
            THEN QSub(QInt(100),
                      QDiv(QInt(100), QAdd(QInt(1), QDiv(avg_gain[i], avg_loss[i]))))
            ELSE QInt(100)]

\* line 851: np.std(x) ** 2 = mean(x * x) - mean(x) ** 2
Variance(x) ==
    LET mean == QDiv(QSum(x), QInt(Len(x)))
    IN  QSub(QDiv(QSum([i \in DOMAIN x |-> QMul(x[i], x[i])]), QInt(Len(x))),
             QMul(mean, mean))

\* lines 849-851, squared and padded like the bands
RollingVariance(prices, window) ==
    PadNaN(Len(prices), window,
           [i \in 1..(Len(prices) - window + 1) |->
               Variance(SubSeq(prices, i, i + window - 1))])

\* lines 878-883: ok is FALSE for numpy's ValueError on a window that is
\* negative (np.ones), zero (np.convolve) or longer than the data (the
\* slice assignment)
get_sma(data, w) ==
    IF w <= 0 \/ w > Len(data) THEN [ok |-> FALSE, padded |-> <<>>]
    ELSE [ok |-> TRUE, padded |-> SmaValues(data, w)]

\* lines 894-898
CrossSignal(prev_short, prev_long, current_short, current_long) ==
    IF QLt(prev_long, prev_short) /\ QLt(current_short, current_long) THEN "death_cross"
    ELSE IF QLt(prev_short, prev_long) /\ QLt(current_long, current_short)
    THEN "golden_cross"
    ELSE "neutral"

\* a technical_indicators request: arguments["indicator"], ["prices"] and
\* the entries of ["params"] (price and earnings may be None)
IndicatorArgs(indicator, prices, window, spans, windows, price, earnings) ==
    [indicator |-> indicator, prices |-> prices, window |-> window,
     fast |-> spans[1], slow |-> spans[2], signal |-> spans[3],
     short_window |-> windows[1], long_window |-> windows[2],
     price |-> price, earnings |-> earnings]

NoIndicatorOut ==
    [values |-> <<>>, macd |-> <<>>, signal_line |-> <<>>, histogram |-> <<>>,
     variance |-> <<>>, signal |-> "", sma_short |-> QNaN, sma_long |-> QNaN,
     pe_ratio |-> QNaN]

IndicatorRaise(exc, error) ==
    [status |-> "error", exc |-> exc, error |-> error, out |-> NoIndicatorOut]

IndicatorReturn(out) == [status |-> "ok", exc |-> "", error |-> "", out |-> out]

\* lines 691-705
pe_ratio(a) ==
    LET price == IF a.price = PyNone /\ a.prices # <<>>
                 THEN QInt(a.prices[Len(a.prices)]) ELSE a.price
    IN  IF price = PyNone \/ a.earnings = PyNone
        THEN IndicatorRaise("ValueError", "pe_requires")
        ELSE IF a.earnings = QInt(0) THEN IndicatorRaise("ValueError", "earnings_zero")
        ELSE IndicatorReturn([NoIndicatorOut EXCEPT !.pe_ratio = QDiv(price, a.earnings)])

\* lines 715-718, 736-739, 836-839: "" when the window is accepted
CheckWindow(n, window) ==
    IF window <= 0 THEN "window_positive"
    ELSE IF n < window THEN "not_enough_data"
    ELSE ""

\* lines 763-766
CheckWindowRsi(n, window) ==
    IF window <= 0 THEN "window_positive"
    ELSE IF n < window + 1 THEN "not_enough_data"
    ELSE ""

\* lines 805-830; a span of -1 makes alpha = 2.0 / 0.0
macd(prices, a) ==
    IF -1 \in {a.fast, a.slow} THEN IndicatorRaise("ZeroDivisionError", "alpha")
    ELSE LET macd_line == [i \in DOMAIN prices |->
                              QSub(calc_ema(prices, a.fast)[i], calc_ema(prices, a.slow)[i])]
         IN  IF a.signal = -1 THEN IndicatorRaise("ZeroDivisionError", "alpha")
             ELSE LET signal_line == calc_ema(macd_line, a.signal)
                  IN  IndicatorReturn([NoIndicatorOut EXCEPT
                          !.macd = macd_line, !.signal_line = signal_line,
                          !.histogram = [i \in DOMAIN prices |->
                                            QSub(macd_line[i], signal_line[i])]])

\* lines 870-905
cross_signal(prices, a) ==
    LET n == Len(prices)
    IN  IF n < a.long_window THEN IndicatorRaise("ValueError", "not_enough_data")
        ELSE LET sma_short == get_sma(prices, a.short_window)
                 sma_long == get_sma(prices, a.long_window)
             IN  IF ~sma_short.ok \/ ~sma_long.ok
                 THEN IndicatorRaise("ValueError", "numpy")
                 ELSE IF n < 2 THEN IndicatorRaise("IndexError", "index")
                 ELSE IndicatorReturn([NoIndicatorOut EXCEPT
                         !.signal = CrossSignal(sma_short.padded[n - 1],
                                                sma_long.padded[n - 1],
                                                sma_short.padded[n], sma_long.padded[n]),
                         !.sma_short = sma_short.padded[n],
                         !.sma_long = sma_long.padded[n]])

\* financial.py:685-908
technical_indicators(a) ==
    IF a.indicator = "pe_ratio" THEN pe_ratio(a)
    ELSE IF a.prices = <<>> THEN IndicatorRaise("ValueError", "requires_prices")
    ELSE LET prices == PriceArray(a.prices)
             n == Len(prices)
         IN  CASE a.indicator = "sma" ->
                    IF CheckWindow(n, a.window) # ""
                    THEN IndicatorRaise("ValueError", CheckWindow(n, a.window))
                    ELSE IndicatorReturn([NoIndicatorOut EXCEPT
                            !.values = SmaValues(prices, a.window)])
               [] a.indicator = "ema" ->
                    IF CheckWindow(n, a.window) # ""
                    THEN IndicatorRaise("ValueError", CheckWindow(n, a.window))
                    ELSE IndicatorReturn([NoIndicatorOut EXCEPT
                            !.values = calc_ema(prices, a.window)])
               [] a.indicator = "rsi" ->
                    IF CheckWindowRsi(n, a.window) # ""
                    THEN IndicatorRaise("ValueError", CheckWindowRsi(n, a.window))
                    ELSE IndicatorReturn([NoIndicatorOut EXCEPT
                            !.values = RsiValues(prices, a.window)])
               [] a.indicator = "macd" -> macd(prices, a)
               [] a.indicator = "bollinger" ->
                    IF CheckWindow(n, a.window) # ""
                    THEN IndicatorRaise("ValueError", CheckWindow(n, a.window))
                    ELSE IndicatorReturn([NoIndicatorOut EXCEPT
                            !.values = SmaValues(prices, a.window),
                            !.variance = RollingVariance(prices, a.window)])
               [] a.indicator = "cross_signal" -> cross_signal(prices, a)
               [] OTHER -> IndicatorRaise("ValueError", "unknown_indicator")

handle_technical_indicators(Reqs) ==
    /\ ncalls < MaxCalls
    /\ \E a \in Reqs : \E res \in {technical_indicators(a)} :
        last' = [NoLast EXCEPT !.op = "technical_indicators", !.status = res.status,
                               !.exc = res.exc, !.error = res.error,
                               !.args = a, !.out = res.out]
    /\ ncalls' = ncalls + 1
    /\ UNCHANGED registry
    /\ UNCHANGED <<fitted_models, trace>>

(* ------------------- present value, rate conversion -------------------- *)

\* a value that is no rational (a logarithm or a root), not computed
QIrr == [k |-> "irr", n |-> 0, d |-> 1]

\* an argument that may be None: a scalar <<v>> or a list
PyArg(given, is_list, v) == [given |-> given, is_list |-> is_list, v |-> v]
NoArg == PyArg(FALSE, FALSE, <<>>)

\* a financial_pv request.  Discrete rates are exact reals; the rates of a
\* continuous request are integers in units of ln(2).
PvArgs(cash_flows, rate, times, compounding) ==
    [cash_flows |-> cash_flows, rate |-> rate, times |-> times,
     compounding |-> compounding]

NoPvOut ==
    [present_value |-> QNaN, discounted_flows |-> <<>>, total_undiscounted |-> QNaN,
     effective_rates |-> <<>>, times |-> <<>>]

\* lines 393-413: the first failing check, "" when all pass
ValidatePv(a) ==
    IF ~a.cash_flows.given \/ ~a.rate.given THEN "required"
    ELSE IF a.times.given /\ Len(a.times.v) # Len(a.cash_flows.v) THEN "times_length"
    ELSE IF a.rate.is_list /\ Len(a.rate.v) # Len(a.cash_flows.v) THEN "rate_length"
    ELSE ""

\* lines 396-439
PvResult(a) ==
    LET cf == [i \in DOMAIN a.cash_flows.v |-> QInt(a.cash_flows.v[i])]
        n == Len(cf)
        t == IF a.times.given THEN a.times.v ELSE [i \in 1..n |-> i]
        r == IF a.rate.is_list THEN a.rate.v ELSE [i \in 1..n |-> a.rate.v[1]]
        df == [i \in 1..n |->
                 IF a.compounding = "continuous" THEN Exp2(-(r[i].n * t[i]))
                 ELSE QDiv(QInt(1), QPow(QAdd(QInt(1), r[i]), t[i]))]
        discounted_flows == [i \in 1..n |-> QMul(cf[i], df[i])]
    IN  [present_value |-> QSum(discounted_flows),
         discounted_flows |-> discounted_flows,
         total_undiscounted |-> QSum(cf),
         effective_rates |-> r, times |-> t]

\* financial.py:386-440
handle_pv(Reqs) ==
    /\ ncalls < MaxCalls
    /\ \E a \in Reqs : \E err \in {ValidatePv(a)} :
        IF err # ""
        THEN last' = [NoLast EXCEPT !.op = "pv", !.status = "error", !.error = err,
                                    !.exc = "ValueError", !.args = a, !.out = NoPvOut]
        ELSE last' = [NoLast EXCEPT !.op = "pv", !.status = "ok",
                                    !.args = a, !.out = PvResult(a)]
    /\ ncalls' = ncalls + 1
    /\ UNCHANGED registry
    /\ UNCHANGED <<fitted_models, trace>>

\* lines 326-337: periods per year, 0 for "continuous" and unknown names
get_frequency(freq_str) ==
    CASE freq_str \in {"simple", "annual"} -> 1
      [] freq_str = "semiannual" -> 2
      [] freq_str = "quarterly" -> 4
      [] freq_str = "monthly" -> 12
      [] freq_str = "weekly" -> 52
      [] freq_str = "daily" -> 365
      [] OTHER -> 0

\* a financial_convert_rate request; None is "" for the frequencies.  A
\* rate with from_freq "continuous" is an integer in units of ln(2).
RateArgs(rate, from_freq, to_freq) ==
    [rate |-> rate, from_freq |-> from_freq, to_freq |-> to_freq]

NoRateOut == [converted_rate |-> QNaN, effective_annual_rate |-> QNaN]

\* lines 354-361: the effective annual rate
EffectiveAnnualRate(a) ==
    IF a.from_freq = "continuous"
    THEN IF a.rate.d = 1 THEN QSub(Exp2(a.rate.n), QInt(1)) ELSE QIrr
    ELSE QSub(QPow(QAdd(QInt(1), QDiv(a.rate, QInt(get_frequency(a.from_freq)))),
                   get_frequency(a.from_freq)),
              QInt(1))

\* lines 364-373: log(1 + ear) in units of ln(2), or the n_to-th root
TargetRate(a, ear) ==
    IF a.to_freq = "continuous"
    THEN IF a.from_freq = "continuous" THEN a.rate ELSE QIrr
    ELSE IF ear = QIrr THEN QIrr
    ELSE IF get_frequency(a.to_freq) = 1 THEN ear
    ELSE IF a.from_freq # "continuous"
            /\ get_frequency(a.to_freq) = get_frequency(a.from_freq) THEN a.rate
    ELSE QIrr

\* financial.py:339-384; status and error of the raise, or the result
convert_rate(a) ==
    IF a.rate = PyNone \/ a.from_freq = "" \/ a.to_freq = ""
    THEN [error |-> "required", out |-> NoRateOut]
    ELSE IF a.from_freq # "continuous" /\ QLe(a.rate, QInt(-1))
    THEN [error |-> "rate", out |-> NoRateOut]
    ELSE IF a.from_freq # "continuous" /\ get_frequency(a.from_freq) <= 0
    THEN [error |-> "from_freq", out |-> NoRateOut]
    ELSE LET ear == EffectiveAnnualRate(a)
         IN  IF a.to_freq = "continuous" /\ QLe(ear, QInt(-1))
             THEN [error |-> "ear", out |-> NoRateOut]
             ELSE IF a.to_freq # "continuous" /\ get_frequency(a.to_freq) <= 0
             THEN [error |-> "to_freq", out |-> NoRateOut]
             ELSE [error |-> "",
                   out |-> [converted_rate |-> TargetRate(a, ear),
                            effective_annual_rate |-> ear]]

handle_convert_rate(Reqs) ==
    /\ ncalls < MaxCalls
    /\ \E a \in Reqs : \E res \in {convert_rate(a)} :
        last' = [NoLast EXCEPT !.op = "convert_rate",
                    !.status = IF res.error = "" THEN "ok" ELSE "error",
                    !.error = res.error,
                    !.exc = IF res.error = "" THEN "" ELSE "ValueError",
                    !.args = a, !.out = res.out]
    /\ ncalls' = ncalls + 1
    /\ UNCHANGED registry
    /\ UNCHANGED <<fitted_models, trace>>

\* financial.py:311-324: the names handle() routes
FinancialTools ==
    {"financial_pv", "financial_convert_rate", "financial_option_price",
     "financial_bond_price", "financial_technical_indicators"}

\* line 324: any other tool name
financial_unknown_tool(Names) ==
    /\ ncalls < MaxCalls
    /\ \E tool_name \in Names \ FinancialTools :
        last' = [NoLast EXCEPT !.op = "financial_handle", !.status = "error",
                               !.error = "unknown_tool", !.exc = "ValueError",
                               !.args = [tool_name |-> tool_name]]
    /\ ncalls' = ncalls + 1
    /\ UNCHANGED registry
    /\ UNCHANGED <<fitted_models, trace>>

(* =========================== elementwise.py ============================ *)

UNARY_OPS ==
    {"exp", "log", "log10", "log2", "sqrt", "square", "abs", "sin", "cos", "tan",
     "sinh", "cosh", "tanh", "floor", "ceil", "round", "negate", "reciprocal",
     "sign", "sigmoid", "relu"}

BINARY_OPS ==
    {"add", "subtract", "multiply", "divide", "power", "mod", "maximum", "minimum",
     "greater", "less", "equal", "not_equal", "greater_equal", "less_equal",
     "logical_and", "logical_or", "logical_xor"}

ALL_OPS == UNARY_OPS \cup BINARY_OPS

\* a math_compute request; operation is already lower case, "" when absent
ComputeArgs(tool_name, operation, a, b) ==
    [tool_name |-> tool_name, operation |-> operation, a |-> a, b |-> b]

\* lines 257-295 on integer-valued tensors; the other operations are not
\* computed
UnaryValue(operation, x) ==
    CASE operation = "negate" -> -x
      [] operation = "square" -> x * x
      [] operation = "abs" -> Abs(x)
      [] operation = "sign" -> IF x > 0 THEN 1 ELSE IF x < 0 THEN -1 ELSE 0
      [] operation = "relu" -> IF x > 0 THEN x ELSE 0
      [] OTHER -> 0

\* lines 297-330
BinaryValue(operation, x, y) ==
    CASE operation = "add" -> x + y
      [] operation = "subtract" -> x - y
      [] operation = "multiply" -> x * y
      [] operation = "maximum" -> IF x >= y THEN x ELSE y
      [] operation = "minimum" -> IF x <= y THEN x ELSE y
      [] OTHER -> 0

\* broadcasting of a scalar against a list
Broadcast(arg, n) == IF arg.is_list THEN arg.v ELSE [i \in 1..n |-> arg.v[1]]

\* elementwise.py:156-177 and 211-264; the result is the list of values and
\* whether it is a list
elementwise_handle(Reqs) ==
    /\ ncalls < MaxCalls
    /\ \E c \in Reqs :
        IF c.tool_name = "math_list_operations"
        THEN last' = [NoLast EXCEPT !.op = "list_operations", !.status = "ok",
                         !.args = c, !.out = [unary |-> UNARY_OPS, binary |-> BINARY_OPS]]
        ELSE IF c.tool_name # "math_compute"
        THEN last' = [NoLast EXCEPT !.op = "elementwise_handle", !.status = "error",
                         !.error = "unknown_tool", !.exc = "ValueError", !.args = c]
        ELSE IF ~c.a.given
        THEN last' = [NoLast EXCEPT !.op = "compute", !.status = "error",
                         !.error = "a_required", !.exc = "ValueError", !.args = c]
        ELSE IF c.operation \notin ALL_OPS
        THEN last' = [NoLast EXCEPT !.op = "compute", !.status = "error",
                         !.error = "unknown_operation", !.exc = "ValueError", !.args = c]
        ELSE IF c.operation \in UNARY_OPS
        THEN last' = [NoLast EXCEPT !.op = "compute", !.status = "ok", !.args = c,
                         !.out = [is_list |-> c.a.is_list,
                                  v |-> [i \in DOMAIN c.a.v |->
                                            UnaryValue(c.operation, c.a.v[i])]]]
        ELSE IF ~c.b.given
        THEN last' = [NoLast EXCEPT !.op = "compute", !.status = "error",
                         !.error = "b_missing", !.exc = "ValueError", !.args = c]
        ELSE LET n == IF Len(c.a.v) >= Len(c.b.v) THEN Len(c.a.v) ELSE Len(c.b.v)
                 x == Broadcast(c.a, n)
                 y == Broadcast(c.b, n)
             IN  last' = [NoLast EXCEPT !.op = "compute", !.status = "ok", !.args = c,
                             !.out = [is_list |-> c.a.is_list \/ c.b.is_list,
                                      v |-> [i \in 1..n |->
                                                BinaryValue(c.operation, x[i], y[i])]]]
    /\ ncalls' = ncalls + 1
    /\ UNCHANGED registry
    /\ UNCHANGED <<fitted_models, trace>>

(* ========================== tool_registry.py =========================== *)

\* a MathCapability instance: its name property and the names of the
\* ToolDefinitions its get_tools() returns, in order
Capability(name, tool_names) == [name |-> name, tools |-> tool_names]

\* the ToolDefinition named t that capability cap returns
ToolDef(cap, t) == [name |-> t, of |-> cap]

\* the loop of lines 53-61 from its i-th pass on; reg holds _tools and
\* _tool_to_capability as the passes before left them, raised is the
\* ValueError of line 56, which ends the loop where it stands
RECURSIVE RegisterTools(_, _, _)
RegisterTools(cap, i, reg) ==
    IF i > Len(cap.tools) THEN reg
    ELSE LET t == cap.tools[i]
         IN  IF t \in DOMAIN reg.tools
             THEN [reg EXCEPT !.raised = TRUE]
             ELSE RegisterTools(cap, i + 1,
                    [tools |-> (t :> ToolDef(cap, t)) @@ reg.tools,
                     tool_to_capability |-> (t :> cap.name) @@ reg.tool_to_capability,
                     raised |-> FALSE])

\* tool_registry.py:35-67, the whole method
register_capability(Caps) ==
    /\ ncalls < MaxCalls
    /\ \E cap \in Caps :
        IF cap.name \in DOMAIN capabilities
        THEN \* line 47
             /\ last' = [NoLast EXCEPT !.op = "register_capability",
                                       !.status = "error", !.exc = "ValueError",
                                       !.error = "capability_registered",
                                       !.args = cap]
             /\ UNCHANGED registry
        ELSE \E reg \in {RegisterTools(cap, 1,
                            [tools |-> tools,
                             tool_to_capability |-> tool_to_capability,
                             raised |-> FALSE])} :
             /\ capabilities' = (cap.name :> cap) @@ capabilities   \* line 50
             /\ tools' = reg.tools
             /\ tool_to_capability' = reg.tool_to_capability
             /\ last' = IF reg.raised
                        THEN [NoLast EXCEPT !.op = "register_capability",
                                            !.status = "error", !.exc = "ValueError",
                                            !.error = "tool_registered",
                                            !.args = cap]
                        ELSE [NoLast EXCEPT !.op = "register_capability",
                                            !.status = "ok", !.args = cap]
    /\ ncalls' = ncalls + 1
    /\ UNCHANGED <<fitted_models, trace>>

\* tool_registry.py:96-121; the capability's own handle() is not run here,
\* the result names the capability the call is routed to
handle_tool(Names) ==
    /\ ncalls < MaxCalls
    /\ \E tool_name \in Names :
        IF tool_name \notin DOMAIN tools
        THEN last' = [NoLast EXCEPT !.op = "handle_tool", !.status = "error",
                                    !.exc = "ValueError", !.error = "unknown_tool",
                                    !.args = [tool_name |-> tool_name]]
        ELSE IF \/ tool_name \notin DOMAIN tool_to_capability
                \/ tool_to_capability[tool_name] \notin DOMAIN capabilities
        THEN \* a dictionary lookup of lines 111-112 fails
             last' = [NoLast EXCEPT !.op = "handle_tool", !.status = "error",
                                    !.exc = "KeyError", !.error = "key",
                                    !.args = [tool_name |-> tool_name]]
        ELSE last' = [NoLast EXCEPT !.op = "handle_tool", !.status = "ok",
                                    !.args = [tool_name |-> tool_name],
                                    !.out = capabilities[tool_to_capability[tool_name]]]
    /\ ncalls' = ncalls + 1
    /\ UNCHANGED <<fitted_models, trace, registry>>

(* ----------------------------- input sets ------------------------------ *)

Floats(s) == [i \in DOMAIN s |-> Fin(s[i])]

\* Spec: two straight lines, a request with no data, an unknown model type
StoreRequests ==
    {FitReq(TRUE, Floats(<<1, 2, 3>>), TRUE, Floats(y), "polynomial", 1, 1) :
        y \in {<<3, 5, 7>>, <<5, 5, 5>>}}
    \cup {FitReq(TRUE, <<>>, TRUE, <<>>, "auto", NoDegree, 1),
          FitReq(TRUE, Floats(<<1, 2, 3>>), TRUE, Floats(<<3, 5, 7>>), "spline", NoDegree, 1)}

PredictRequests ==
    {PredictReq(id, TRUE, shape, <<4>>) :
        id \in 0..ForeignId, shape \in {"list", "scalar", "text"}}
    \cup {PredictReq(id, FALSE, "list", <<>>) : id \in 0..ForeignId}

\* SpecData: the arrays of length n, with NaN and inf in them
DataYVals == {Fin(0), Fin(1), Fin(9), NaN}

DataXArrays(n) ==
    {[i \in 1..n |-> Fin(i)], [i \in 1..n |-> Fin(1)]}
        \cup {[i \in 1..n |-> IF i = p THEN PosInf ELSE Fin(i)] : p \in {1, n}}

\* x of length n with every y of length n, with a y of each other length,
\* and (at n = 0) with x or y absent
DataRequests(n) ==
    {FitReq(TRUE, x, TRUE, y, "polynomial", 1, 1) :
        x \in DataXArrays(n), y \in [1..n -> DataYVals]}
    \cup {FitReq(TRUE, x, TRUE, [i \in 1..m |-> Fin(0)], "polynomial", 1, 1) :
            x \in DataXArrays(n), m \in (0..MaxLen) \ {n}}
    \cup (IF n = 0
          THEN {FitReq(hasx, <<>>, hasy, <<>>, "polynomial", 1, 1) :
                  hasx \in BOOLEAN, hasy \in BOOLEAN}
          ELSE {})

\* SpecFit: y = s*x + e on x = x0, x0+1, ..., with e zero or a bump of 1 at
\* the last point; every model type; both units of x
MaxFitLen == 4
BigScale == 100000

FitDataSets ==
    UNION {{[x |-> [i \in 1..n |-> x0 + i - 1],
             y |-> [i \in 1..n |-> s * (x0 + i - 1) + e[i]]] :
              x0 \in {0, 1}, s \in {0, 1},
              e \in {[i \in 1..n |-> IF i = p THEN 1 ELSE 0] : p \in {0, n}}}
           : n \in MinPoints..MaxFitLen}

FitModes ==
    {[model_type |-> "auto", degree |-> d] : d \in {NoDegree, 1}}
    \cup {[model_type |-> "polynomial", degree |-> d] : d \in {NoDegree} \cup 0..2}
    \cup {[model_type |-> m, degree |-> NoDegree] :
            m \in {"exponential", "logarithmic", "power", "sigmoid", "spline"}}

FitRequests ==
    {FitReq(TRUE, Floats(d.x), TRUE, Floats(d.y), m.model_type, m.degree, sc) :
        d \in FitDataSets, m \in FitModes, sc \in {1, BigScale}}

\* option_price requests.  Rates are in units of ln(2)/dt, sigma in units
\* of ln(2)/sqrt(dt) and dividend times in units of dt = T/N, so that every
\* exponential of the tree is a power of 2.
MaxSteps == 3        \* largest number of tree steps
MaxSpot == 3         \* largest spot price

DividendSchedules ==
    {<<>>}
    \cup {<<[time |-> t, amount |-> 1]>> : t \in 0..(MaxSteps + 1)}
    \cup {<<[time |-> 1, amount |-> 2]>>}
    \cup {<<[time |-> 1, amount |-> 1], [time |-> t, amount |-> 1]>> :
            t \in 2..(MaxSteps + 1)}

\* sigma = 2 on trees of at most two steps only: the exact node values of
\* deeper trees leave the 32-bit integers
SigmaValues(N) == IF N <= 2 THEN {0, 1, 2} ELSE {0, 1}

\* requests that pass the argument checks, with T > 0
PricedRequests(N) ==
    {OptionArgs(S, K, 1, r, q, dv, sigma, ot, st, N) :
        S \in 0..MaxSpot, K \in {1, 2},
        r \in {-1, 0, 1}, q \in {0, 1}, dv \in DividendSchedules,
        sigma \in SigmaValues(N), ot \in {"call", "put"},
        st \in {"european", "american"}}

\* requests around the argument checks, with T > 0
CheckedRequests(N) ==
    {OptionArgs(S, K, 1, 1, 0, dv, sigma, ot, st, N) :
        S \in {-1, 0, 1}, K \in {-1, 0, 1},
        dv \in {<<>>, <<[time |-> 1, amount |-> 2]>>},
        sigma \in {-1, 0, 1}, ot \in {"call", "put"},
        st \in {"european", "american"}}

\* requests with T <= 0
ExpiredRequests(N) ==
    {OptionArgs(S, K, T, 1, 0, dv, sigma, ot, st, N) :
        S \in -1..MaxSpot, K \in {-1, 1, 2}, T \in {-1, 0},
        dv \in {<<>>, <<[time |-> 1, amount |-> 2]>>},
        sigma \in {-1, 0, 1}, ot \in {"call", "put"},
        st \in {"european", "american"}}

OptionRequests(N) ==
    (IF N >= 1 THEN PricedRequests(N) ELSE {})
        \cup CheckedRequests(N) \cup ExpiredRequests(N)

\* technical_indicators requests over n prices
MaxPrices == 4       \* longest price series
MaxWindow == 5       \* largest window

PriceLists(n) == [1..n -> {1, 2, 4}]

IndicatorRequests(n) ==
    {IndicatorArgs(ind, pr, w, <<2, 3, 2>>, <<1, 2>>, PyNone, PyNone) :
        ind \in {"sma", "ema", "rsi", "bollinger", "volume"},
        pr \in PriceLists(n), w \in 0..MaxWindow}
    \cup {IndicatorArgs("macd", pr, 1, <<f, sl, sg>>, <<1, 2>>, PyNone, PyNone) :
            pr \in PriceLists(n), f \in {1, 2}, sl \in {2, 3}, sg \in {1, 2}}
    \cup {IndicatorArgs("cross_signal", pr, 1, <<2, 3, 2>>, <<sw, lw>>, PyNone, PyNone) :
            pr \in PriceLists(n), sw \in 0..MaxWindow, lw \in 0..MaxWindow}
    \cup {IndicatorArgs("pe_ratio", pr, 1, <<2, 3, 2>>, <<1, 2>>, p, e) :
            pr \in PriceLists(n), p \in {PyNone, QInt(6)},
            e \in {PyNone, QInt(0), QInt(3)}}

\* bond_price requests; maturities in quarters of a year
MaxYears == 2        \* longest maturity in years

BondRequests ==
    {BondArgs(QInt(fv), cr, fq, Rat(y4, 4), Rat(ytm2, 2)) :
        fv \in {-1, 0, 2}, cr \in {QInt(0), Rat(1, 2)}, fq \in -1..2,
        y4 \in -1..(4 * MaxYears), ytm2 \in -3..2}

\* financial_pv requests over cash-flow lists of up to MaxFlows entries
MaxFlows == 2        \* longest cash-flow list

ArgLists(Vals) == UNION {[1..n -> Vals] : n \in 0..MaxFlows}

PvRequests ==
    {PvArgs(cf, rt, tm, "discrete") :
        cf \in {NoArg} \cup {PyArg(TRUE, TRUE, l) : l \in ArgLists({1, 2})},
        rt \in {NoArg, PyArg(TRUE, FALSE, <<Rat(1, 2)>>)}
               \cup {PyArg(TRUE, TRUE, l) : l \in ArgLists({QInt(0), QInt(1)})},
        tm \in {NoArg} \cup {PyArg(TRUE, TRUE, l) : l \in ArgLists({0, 2})}}
    \cup {PvArgs(PyArg(TRUE, TRUE, l), PyArg(TRUE, FALSE, <<QInt(ri)>>), NoArg, "continuous") :
            l \in ArgLists({1, 2}), ri \in {-1, 0, 1}}

RateRequests ==
    {RateArgs(rt, ff, tf) :
        rt \in {PyNone, QInt(-1), Rat(-1, 2), QInt(0), QInt(1)},
        ff \in {"", "annual", "semiannual", "continuous", "hourly"},
        tf \in {"", "simple", "semiannual", "quarterly", "continuous", "hourly"}}

ComputeRequests ==
    {ComputeArgs(tn, op, a, b) :
        tn \in {"math_compute", "math_list_operations", "math_solve"},
        op \in {"", "negate", "abs", "add", "maximum", "cube"},
        a \in {NoArg, PyArg(TRUE, FALSE, <<-2>>), PyArg(TRUE, TRUE, <<1, -3>>)},
        b \in {NoArg, PyArg(TRUE, FALSE, <<3>>), PyArg(TRUE, TRUE, <<-1, 5>>)}}

ToolNames == FinancialTools \cup {"financial_npv", "math_compute", ""}

\* capabilities to register: two names, get_tools() of up to MaxTools tools
MaxTools == 2        \* longest get_tools() list

RegistryToolNames == {"curve_fit", "curve_predict", "math_compute"}

ToolLists == UNION {[1..n -> RegistryToolNames] : n \in 0..MaxTools}

CapabilityInstances ==
    {Capability(name, tl) : name \in {"curvefit", "elementwise"}, tl \in ToolLists}

(* --------------------------- specifications ---------------------------- *)

Init ==
    /\ fitted_models = <<>>
    /\ last = NoLast
    /\ trace = <<>>
    /\ ncalls = 0
    /\ capabilities = <<>>
    /\ tool_to_capability = <<>>
    /\ tools = <<>>

\* any sequence of curve_fit and curve_predict calls on one instance
Next ==
    \/ handle_fit(StoreRequests, ModelIds)
    \/ handle_predict(PredictRequests)

Spec == Init /\ [][Next]_vars

\* one curve_fit call on a fresh instance, over the data requests
NextData == ncalls = 0 /\ \E n \in 0..MaxLen : handle_fit(DataRequests(n), {1})

SpecData == Init /\ [][NextData]_vars

\* one curve_fit call on a fresh instance, over the model requests
NextFit == ncalls = 0 /\ handle_fit(FitRequests, {1})

SpecFit == Init /\ [][NextFit]_vars

\* one option_price call on a fresh instance
NextOption == ncalls = 0 /\ \E N \in 0..MaxSteps : handle_option_price(OptionRequests(N))

SpecOption == Init /\ [][NextOption]_vars

\* one technical_indicators call on a fresh instance
NextIndicator ==
    ncalls = 0 /\ \E n \in 0..MaxPrices : handle_technical_indicators(IndicatorRequests(n))

SpecIndicator == Init /\ [][NextIndicator]_vars

\* one bond_price call on a fresh instance
NextBond == ncalls = 0 /\ handle_bond_price(BondRequests)

SpecBond == Init /\ [][NextBond]_vars

\* one call of ElementwiseCapability.handle or FinancialCapability.handle
\* on fresh instances
NextHandle ==
    /\ ncalls = 0
    /\ \/ elementwise_handle(ComputeRequests)
       \/ financial_unknown_tool(ToolNames)
       \/ handle_pv(PvRequests)
       \/ handle_convert_rate(RateRequests)
       \/ \E N \in 0..1 : handle_option_price(OptionRequests(N))
       \/ handle_bond_price(BondRequests)
       \/ \E n \in 0..2 : handle_technical_indicators(IndicatorRequests(n))

SpecHandle == Init /\ [][NextHandle]_vars

\* any sequence of register_capability and handle_tool calls on one registry
NextRegistry ==
    \/ register_capability(CapabilityInstances)
    \/ handle_tool(RegistryToolNames)

SpecRegistry == Init /\ [][NextRegistry]_vars

(* ------------------- properties: validation, filter -------------------- *)

\* C5: a curve_fit call is rejected, before the outlier filter or any fitter
\* runs, with 'required' exactly when x or y is missing or empty, else with
\* 'same length' exactly when the lengths differ, else with 'At least 3'
\* exactly when fewer than 3 points are given, else with the too-many-invalid
\* error exactly when fewer than 3 pairs have both coordinates finite; a
\* request that passes all four reaches the filter and the fitters.
C5_ValidationOrder ==
    last.op = "fit" =>
        LET r == last.req
            missing == ~r.hasx \/ ~r.hasy \/ Len(r.x) = 0 \/ Len(r.y) = 0
            differ == Len(r.x) # Len(r.y)
            short == Len(r.x) < 3
            finite == {i \in DOMAIN r.x : r.x[i].k = "fin" /\ r.y[i].k = "fin"}
            expected ==
                IF missing THEN "required"
                ELSE IF differ THEN "same_length"
                ELSE IF short THEN "at_least_3"
                ELSE IF Cardinality(finite) < 3 THEN "too_many_invalid"
                ELSE ""
        IN  IF expected # ""
            THEN /\ last.status = "error"
                 /\ last.error = expected
                 /\ ~last.ran_filter
                 /\ ~last.ran_fitters
                 /\ fitted_models = <<>>
            ELSE /\ last.ran_filter
                 /\ last.ran_fitters
                 /\ last.error \notin {"required", "same_length", "at_least_3",
                                       "too_many_invalid"}

\* C5 witness: a request of at least 3 equal-length points is rejected
\* because fewer than 3 of its pairs are finite
C5_Witness ==
    /\ last.op = "fit"
    /\ last.error = "too_many_invalid"
    /\ Len(last.req.x) >= 3
    /\ Len(last.req.x) = Len(last.req.y)

\* C6: the cleaned dataset has at least 3 points; the finite dataset is the
\* request's pairs with both coordinates finite, in order; the cleaned
\* dataset is, in order, exactly the finite pairs with modified Z-score < 3.5
\* when MAD > 1e-9 and at least 3 such pairs exist, and the whole finite
\* dataset otherwise.
C6_CleanedData ==
    (last.op = "fit" /\ last.ran_filter) =>
        LET r == last.req
            finite == {i \in DOMAIN r.x : r.x[i].k = "fin" /\ r.y[i].k = "fin"}
            frank(i) == Cardinality({j \in finite : j <= i})
            x == last.x
            y == last.y
            res == Residuals(x, y)
            m2 == Median2(res)
            low == {i \in DOMAIN x : 1349 * res[i] < 3500 * m2}
            kept == IF m2 > 0 /\ Cardinality(low) >= 3 THEN low ELSE DOMAIN x
            krank(i) == Cardinality({j \in kept : j <= i})
        IN  /\ Len(x) = Cardinality(finite)
            /\ Len(y) = Cardinality(finite)
            /\ \A i \in finite : x[frank(i)] = r.x[i].v /\ y[frank(i)] = r.y[i].v
            /\ Len(last.x_clean) >= 3
            /\ Len(last.x_clean) = Cardinality(kept)
            /\ Len(last.y_clean) = Cardinality(kept)
            /\ \A i \in kept : /\ last.x_clean[krank(i)] = x[i]
                               /\ last.y_clean[krank(i)] = y[i]
            /\ last.status = "ok" =>
                  /\ last.best.params.x = last.x_clean
                  /\ last.best.params.y = last.y_clean

\* C6 witness: the filter removed an outlier and the fit went on with the rest
C6_Witness ==
    /\ last.op = "fit"
    /\ last.status = "ok"
    /\ 3 <= Len(last.x_clean)
    /\ Len(last.x_clean) < Len(last.x)
    /\ last.outliers_removed > 0

(* ------------------- properties: fitters and selection ----------------- *)

\* C1: for every successful curve_fit call, the AIC of the candidate stored
\* and returned is <= the AIC of every other feasible (non-None) candidate
\* of that call.
C1_AicMinimal ==
    (last.op = "fit" /\ last.status = "ok") =>
        LET valid == ValidCandidates(last.candidates)
        IN  /\ last.best = valid[last.best_index]
            /\ fitted_models[last.model_id] = last.best
            /\ \A j \in DOMAIN valid :
                  j # last.best_index => FLe(last.best.aic, valid[j].aic)

\* C7: a fitter that is infeasible (logarithmic with some cleaned x <= 0,
\* power with some cleaned x <= 0 or y <= 0, any fitter that raises)
\* contributes None and the call still succeeds when another fitter is
\* feasible; the call fails with 'Could not fit any model' exactly when every
\* attempted fitter was infeasible, and with no other error.
C7_InfeasibleIsSilent ==
    (last.op = "fit" /\ last.ran_fitters) =>
        LET xc == last.x_clean
            yc == last.y_clean
            att == last.attempted
            npoly == Cardinality({i \in DOMAIN att : att[i].family = "polynomial"})
            outcome(i) ==
                CASE att[i].family = "polynomial" -> last.num.poly[i]
                  [] att[i].family = "exponential" -> last.num.exp
                  [] att[i].family = "logarithmic" -> last.num.log
                  [] att[i].family = "power" -> last.num.power
                  [] att[i].family = "sigmoid" -> last.num.sigmoid
            infeasible(i) ==
                \/ att[i].family = "logarithmic" /\ \E k \in DOMAIN xc : xc[k] <= 0
                \/ /\ att[i].family = "power"
                   /\ \E k \in DOMAIN xc : xc[k] <= 0 \/ yc[k] <= 0
                \/ outcome(i).k = "raise"
        IN  /\ Len(last.candidates) = Len(att)
            /\ \A i \in DOMAIN att : infeasible(i) <=> ~last.candidates[i].ok
            /\ \A i \in DOMAIN att :
                  last.candidates[i].ok => last.candidates[i].fit.family = att[i].family
            /\ last.status \in {"ok", "error"}
            /\ last.status = "error" <=> last.error = "no_model"
            /\ last.error = "no_model" <=> \A i \in DOMAIN att : infeasible(i)
            /\ last.status = "ok" => last.error = ""

\* C7 witness: a call succeeds although its logarithmic and power fitters
\* were infeasible for the data
C7_Witness ==
    /\ last.op = "fit"
    /\ last.status = "ok"
    /\ \E i, j \in DOMAIN last.attempted :
          /\ last.attempted[i].family = "logarithmic"
          /\ ~last.candidates[i].ok
          /\ last.attempted[j].family = "power"
          /\ ~last.candidates[j].ok
    /\ \E k \in DOMAIN last.x_clean : last.x_clean[k] <= 0

C10_FailedFitInfeasible ==
    LET failed(k) == k \in {"raise", "nan"}
        iterative(f) == f \in {"exponential", "sigmoid"}
    IN  /\ (last.op = "fit" /\ last.ran_fitters) =>
              /\ \A i \in DOMAIN last.attempted :
                    (/\ iterative(last.attempted[i].family)
                     /\ failed((IF last.attempted[i].family = "exponential"
                                THEN last.num.exp ELSE last.num.sigmoid).k))
                    => ~last.candidates[i].ok
              /\ ~(iterative(last.best.family) /\ failed(last.best.rmse.k))
        /\ \A id \in DOMAIN fitted_models :
              ~(iterative(fitted_models[id].family) /\ failed(fitted_models[id].rmse.k))

(* --------------------- properties: the model store --------------------- *)

\* C2: every successful curve_fit inserted its winner under an identifier
\* that was not yet a key of the store, and every entry ever inserted is
\* still in the store with the value it was inserted with.
C2_InsertOnly ==
    /\ (last.op = "fit" /\ last.status = "ok") => ~last.was_key
    /\ \A k \in DOMAIN trace :
          trace[k].op = "insert" =>
              /\ trace[k].model_id \in DOMAIN fitted_models
              /\ fitted_models[trace[k].model_id] = trace[k].fit
              /\ \A j \in DOMAIN trace :
                    (j # k /\ trace[j].op = "insert")
                        => trace[j].model_id # trace[k].model_id

\* C3: every curve_predict with an identifier a successful curve_fit
\* returned gives the prediction of the candidate that fit selected, so two
\* predictions with the same identifier and the same x are equal, whatever
\* calls ran in between.
C3_PredictIdempotent ==
    \A k \in DOMAIN trace :
        trace[k].op = "predict" =>
            /\ \A j \in DOMAIN trace :
                  (trace[j].op = "insert" /\ trace[j].model_id = trace[k].model_id)
                      => trace[k].y_pred = predict_fn(trace[j].fit, trace[k].x)
            /\ \A j \in DOMAIN trace :
                  (/\ trace[j].op = "predict"
                   /\ trace[j].model_id = trace[k].model_id
                   /\ trace[j].x = trace[k].x)
                      => trace[j].y_pred = trace[k].y_pred

\* C4: a curve_predict whose model_id is missing or empty, or whose x is
\* missing, fails with 'model_id and x are required' whatever the store
\* holds; otherwise one whose identifier no successful curve_fit has
\* returned fails with 'not found'; neither produces a prediction, and a
\* call with a returned identifier and an x does produce one.
C4_PredictErrors ==
    last.op = "predict" =>
        LET q == last.preq
            returned == {trace[k].model_id : k \in {i \in DOMAIN trace : trace[i].op = "insert"}}
        IN  IF q.model_id = 0 \/ ~q.hasx
            THEN /\ last.status = "error"
                 /\ last.error = "predict_required"
                 /\ last.y_pred = <<>>
            ELSE IF q.model_id \notin returned
            THEN /\ last.status = "error"
                 /\ last.error = "not_found"
                 /\ last.y_pred = <<>>
            ELSE /\ last.error \notin {"predict_required", "not_found"}
                 /\ q.shape = "list" =>
                       /\ last.status = "ok"
                       /\ Len(last.y_pred) = Len(q.x)
                       /\ trace[Len(trace)].op = "predict"
                       /\ trace[Len(trace)].y_pred = last.y_pred

\* C4 witness: with a model in the store, a prediction is asked for an
\* identifier that no fit returned and fails with 'not found'
C4_Witness ==
    /\ last.op = "predict"
    /\ last.error = "not_found"
    /\ last.preq.hasx
    /\ fitted_models # <<>>
    /\ last.preq.model_id \notin DOMAIN fitted_models

\* C11: for an existing model identifier and an x that is a single number
\* or a list of numbers, a curve_predict call either succeeds or fails with
\* the invalid-input error 'Prediction failed'; no other exception escapes.
C11_PredictFailureWrapped ==
    (/\ last.op = "predict"
     /\ last.preq.hasx
     /\ last.preq.model_id \in DOMAIN fitted_models
     /\ last.preq.shape \in {"list", "scalar"})
    => \/ last.status = "ok"
       \/ /\ last.status = "error"
          /\ last.error = "prediction_failed"
          /\ last.exc = "InvalidInputError"

(* ----------------------- properties: option tree ----------------------- *)

\* the request of an option_price call that built a tree
OptionPriced == last.op = "option_price" /\ last.status = "ok" /\ last.out.tree

\* C12: at every node of every layer of the backward induction the American
\* value is at least the European value of the same contract, hence the
\* American price is at least the European price.
C12_AmericanGeEuropean ==
    OptionPriced =>
        LET am == TreeLayers(last.args, "american")
            eu == TreeLayers(last.args, "european")
        IN  /\ \A j \in DOMAIN am : \A i \in DOMAIN am[j] : QLe(eu[j][i], am[j][i])
            /\ QLe(eu[1][1], am[1][1])

\* both styles give the same value at every node of every layer
SameAtEveryNode(a) ==
    LET am == TreeLayers(a, "american")
        eu == TreeLayers(a, "european")
    IN  \A j \in DOMAIN am : \A i \in DOMAIN am[j] : QEq(am[j][i], eu[j][i])

CallNoDividends == OptionPriced /\ last.args.option_type = "call"
                   /\ last.args.dividends = <<>> /\ last.args.q = 0

ValidProbability(a) == QLe(QInt(0), TreeP(a)) /\ QLe(TreeP(a), QInt(1))

EscrowedSpot(a) ==
    QSub(QInt(a.S),
         QSum([i \in DOMAIN a.dividends |->
                 IF 0 < a.dividends[i].time /\ a.dividends[i].time <= a.N
                 THEN QMul(QInt(a.dividends[i].amount), Exp2(-a.r * a.dividends[i].time))
                 ELSE QInt(0)]))

\* the request without its dividends at time <= 0 or time > T
InsideOnly(a) ==
    [a EXCEPT !.dividends =
        SelectSeq(a.dividends, LAMBDA dv : 0 < dv.time /\ dv.time <= a.N)]

\* C16: for a request with T > 0 that passes the argument checks, exactly
\* the dividends with 0 < time <= T enter the escrow adjustment (dropping
\* those with time <= 0 or time > T changes nothing), and pricing fails
\* with an input error in the first pricing run, before any tree parameter
\* is computed, exactly when S minus their present value is <= 0.
C16_EscrowAdjustment ==
    (last.op = "option_price" /\ last.args.T > 0 /\ ValidateOption(last.args) = "")
    => LET a == last.args
           inside == calculate_binomial_price(InsideOnly(a), a.style)
       IN  /\ \/ InsideOnly(a) = a
              \/ /\ (inside.status = "ok") <=> (last.status = "ok")
                 /\ inside.tree = last.out.tree
                 /\ inside.layers = last.out.layers
                 /\ last.status = "ok" =>
                       /\ inside.price = last.out.price
                       /\ inside.delta = last.out.delta
                       /\ inside.gamma = last.out.gamma
                       /\ inside.theta = last.out.theta
           /\ IF QLe(EscrowedSpot(a), QInt(0))
              THEN /\ last.status = "error" /\ last.exc = "ValueError"
                   /\ last.error = "pv_dividends"
                   /\ last.out.runs = 1 /\ ~last.out.tree /\ last.out.layers = <<>>
              ELSE /\ last.status = "ok" /\ last.out.tree
                   /\ TreePrice(TreeParams(a), 0, 0) = EscrowedSpot(a)

\* a positive spot rejected for the one dividend paid in (0, T], the other
\* dividend of the request being paid after T
C16_Witness ==
    /\ last.op = "option_price" /\ last.error = "pv_dividends"
    /\ last.args.T > 0 /\ last.args.S > 0
    /\ Len(last.args.dividends) = 2
    /\ Len(ValidDivs(last.args.dividends, last.args.N)) = 1

(* --------------------- properties: indicators -------------------------- *)

IndicatorCall == last.op = "technical_indicators"

\* the smallest number of prices the indicator's window asks for
RequiredPrices(a) ==
    CASE a.indicator \in {"sma", "ema", "bollinger"} -> a.window
      [] a.indicator = "rsi" -> a.window + 1
      [] a.indicator = "macd" -> a.slow
      [] a.indicator = "cross_signal" -> a.long_window
      [] OTHER -> 0

\* C17: a windowed indicator (sma, ema, bollinger, rsi, macd, cross_signal)
\* called with fewer prices than its window requires fails with an
\* invalid-input error and returns no values.
C17_TooShortRejected ==
    (IndicatorCall
        /\ last.args.indicator \in {"sma", "ema", "bollinger", "rsi", "macd", "cross_signal"}
        /\ Len(last.args.prices) < RequiredPrices(last.args))
    => /\ last.status = "error" /\ last.exc = "ValueError"
       /\ last.out = NoIndicatorOut

\* the arithmetic mean of prices[lo .. hi]
MeanOf(prices, lo, hi) ==
    QDiv(QSum([k \in 1..(hi - lo + 1) |-> QInt(prices[lo + k - 1])]), QInt(hi - lo + 1))

\* C20: sma over n prices with window W, 1 <= W <= n, returns exactly n
\* values; the first W-1 are None and every later value i is the arithmetic
\* mean of the W prices ending at i.
C20_SmaValues ==
    (IndicatorCall /\ last.args.indicator = "sma"
        /\ 1 <= last.args.window /\ last.args.window <= Len(last.args.prices))
    => LET W == last.args.window
           v == last.out.values
       IN  /\ last.status = "ok"
           /\ Len(v) = Len(last.args.prices)
           /\ \A i \in 1..(W - 1) : v[i] = PyNone
           /\ \A i \in W..Len(v) : v[i] = MeanOf(last.args.prices, i - W + 1, i)

(* ------------------------- properties: bonds --------------------------- *)

\* C18: a bond_price request with face_value < 0, frequency <= 0,
\* years_to_maturity <= 0 or yield_to_maturity <= -1 is rejected with an
\* invalid-input error before any discounting, and every other request has
\* int(years * frequency) >= 1 coupon periods, the face value being added
\* to the last of its cash flows.
C18_BondValidation ==
    last.op = "bond_price" =>
        LET a == last.args
        IN  IF \/ QLt(a.face_value, QInt(0)) \/ a.frequency <= 0
               \/ QLe(a.years, QInt(0)) \/ QLe(a.ytm, QInt(-1))
            THEN /\ last.status = "error" /\ last.exc = "ValueError"
                 /\ ~last.out.discounted
            ELSE /\ NPeriods(a) >= 1
                 /\ last.status = "ok"
                 /\ Len(last.out.cash_flows) = NPeriods(a)

(* ---------------------- properties: error classes --------------------- *)

\* the input-validation failures of the elementwise and financial handlers
ValidationFailures ==
    [compute |-> {"unknown_operation", "b_missing", "a_required"},
     elementwise_handle |-> {"unknown_tool"},
     financial_handle |-> {"unknown_tool"},
     option_price |-> {"spot_negative", "strike_negative", "sigma_negative", "steps"},
     bond_price |-> {"face_value", "frequency", "years", "ytm"},
     pv |-> {"required", "times_length", "rate_length"},
     convert_rate |-> {"required", "rate", "from_freq", "ear", "to_freq"},
     technical_indicators |-> {"pe_requires", "earnings_zero", "requires_prices",
                               "window_positive", "not_enough_data",
                               "unknown_indicator"}]

IsValidationFailure ==
    /\ last.status = "error"
    /\ last.op \in DOMAIN ValidationFailures
    /\ last.error \in ValidationFailures[last.op]

\* C19: every input-validation failure raised by ElementwiseCapability and
\* by FinancialCapability is an InvalidInputError, the class that
\* CurveFitCapability raises.
C19_ValidationIsInvalidInput ==
    IsValidationFailure => last.exc = "InvalidInputError"

(* ------------------- properties: candidate generation ------------------ *)

\* the polynomial degrees among the fitters a call attempted, in order
AttemptedDegrees ==
    LET polys == SelectSeq(last.attempted, LAMBDA f : f.family = "polynomial")
    IN  [i \in DOMAIN polys |-> polys[i].degree]

\* C21: when model_type is 'auto' or 'polynomial' and no degree is given,
\* curve_fit attempts exactly the polynomial degrees 1 .. min(10, n - 2), n
\* being the number of cleaned points; when a degree d is given it attempts
\* exactly degree d and no other, whatever n is.
C21_PolynomialDegrees ==
    (/\ last.op = "fit"
     /\ last.ran_fitters
     /\ last.req.model_type \in {"auto", "polynomial"}) =>
        LET n == Len(last.x_clean)
            top == IF n - 2 < 10 THEN n - 2 ELSE 10
        IN  IF last.req.degree = NoDegree
            THEN AttemptedDegrees = [i \in 1..top |-> i]
            ELSE AttemptedDegrees = <<last.req.degree>>

Families == {"polynomial", "exponential", "logarithmic", "power", "sigmoid"}

\* the families of the fitters a call attempted
AttemptedFamilies == {last.attempted[i].family : i \in DOMAIN last.attempted}

\* C22: when model_type names one family only that family's fitter runs, so
\* the model kind of a successful result belongs to the requested family;
\* with 'auto' all five families are attempted; any other model_type value
\* attempts no fitter and the call fails with 'Could not fit any model to
\* the data'.
C22_RequestedFamilies ==
    (last.op = "fit" /\ last.ran_fitters) =>
        LET mt == last.req.model_type
        IN  /\ Len(last.candidates) = Len(last.attempted)
            /\ mt \in Families =>
                    /\ AttemptedFamilies = {mt}
                    /\ last.status = "ok" => last.best.family = mt
            /\ mt = "auto" => AttemptedFamilies = Families
            /\ mt \notin Families \cup {"auto"} =>
                    /\ last.attempted = <<>>
                    /\ last.status = "error"
                    /\ last.error = "no_model"

\* C22 witness: a request for the exponential family alone succeeded
C22_Witness ==
    /\ last.op = "fit"
    /\ last.status = "ok"
    /\ last.req.model_type = "exponential"
    /\ last.best.family = "exponential"
    /\ Len(last.attempted) = 1

(* ----------------------- properties: the lattice ----------------------- *)

\* reconstructed asset price of node i of layer j: tree price plus the
\* present value at j*dt of the dividends paid after j*dt
AssetPrice(a, j, i) ==
    QAdd(TreePrice(TreeParams(a), j, i),
         PvDivsAfter(ValidDivs(a.dividends, a.N), a.r, j))

\* C23: for every step count N >= 1 and T > 0, the Delta returned by option
\* pricing is computed from the option values of the two layer-1 nodes of
\* the lattice, and Gamma and Theta from the option values of the three
\* layer-2 nodes (where the lattice has a layer 2), these values being the
\* ones the backward induction (or the terminal layer) produced.
C23_GreeksFromLattice ==
    OptionPriced =>
        LET a == last.args
            layers == last.out.layers
            v1 == layers[2]
            delta == QDiv(QSub(v1[1], v1[2]),
                          QSub(AssetPrice(a, 1, 0), AssetPrice(a, 1, 1)))
        IN  /\ last.out.delta = delta
            /\ a.N >= 2 =>
                  LET v2 == layers[3]
                      S_uu == AssetPrice(a, 2, 0)
                      S_ud == AssetPrice(a, 2, 1)
                      S_dd == AssetPrice(a, 2, 2)
                      delta_u == QDiv(QSub(v2[1], v2[2]), QSub(S_uu, S_ud))
                      delta_d == QDiv(QSub(v2[2], v2[3]), QSub(S_ud, S_dd))
                      h == QMul(Rat(1, 2), QSub(S_uu, S_dd))
                  IN  /\ last.out.gamma = QDiv(QSub(delta_u, delta_d), h)
                      /\ last.out.theta =
                            QDiv(QDiv(QSub(v2[2], last.out.price),
                                      QMul(QInt(2), Rat(a.T, a.N))), QInt(365))

\* C23 restricted to the trees whose loop passes layers 2 and 1
C23_DeepTrees == (OptionPriced /\ last.args.N >= 3) => C23_GreeksFromLattice

\* C24: for T > 0 and N >= 1 the backward induction starts from exactly
\* N+1 terminal option values, performs exactly N steps j = N-1, ..., 0,
\* holds exactly j+1 values after step j, and terminates with exactly one
\* root value, which is the returned price.
C24_InductionShape ==
    OptionPriced =>
        LET a == last.args
            tp == TreeParams(a)
            layers == last.out.layers
        IN  /\ DOMAIN layers = 1..(a.N + 1)
            /\ layers[a.N + 1] = TerminalValues(tp)
            /\ Len(layers[a.N + 1]) = a.N + 1
            /\ \A j \in 0..(a.N - 1) :
                  /\ Len(layers[j + 1]) = j + 1
                  /\ layers[j + 1] = InductionStep(tp, a.style, layers[j + 2], j)
            /\ Len(layers[1]) = 1
            /\ last.out.price = layers[1][1]

\* C24 witness: a European tree of three or more steps priced above zero
C24_Witness ==
    /\ OptionPriced
    /\ last.args.N >= 3
    /\ last.args.style = "european"
    /\ Len(last.out.layers[last.args.N + 1]) = last.args.N + 1
    /\ Len(last.out.layers[1]) = 1
    /\ QLt(QInt(0), last.out.price)

AmericanPriced == OptionPriced /\ last.args.style = "american"

\* every node of every induction step is worth at least its intrinsic
\* payoff, the root's asset price is the spot, the price is at least the
\* payoff at the spot
AtLeastIntrinsic(a, layers, price) ==
    LET tp == TreeParams(a)
    IN  /\ \A j \in 0..(a.N - 1) : \A i \in 0..j :
              QLe(Payoff(tp, AssetPrice(a, j, i)), layers[j + 1][i + 1])
        /\ AssetPrice(a, 0, 0) = QInt(a.S)
        /\ QLe(Payoff(tp, QInt(a.S)), price)

\* C25: for American style, after every induction step j each node's value
\* is >= the intrinsic payoff at that node's reconstructed asset price (tree
\* price plus the present value, at time j*dt, of the dividends paid
\* strictly after j*dt); at the root the reconstructed price equals the
\* original spot S, so the American price is >= max(K - S, 0) for a put and
\* >= max(S - K, 0) for a call.
C25_AmericanAboveIntrinsic ==
    AmericanPriced => AtLeastIntrinsic(last.args, last.out.layers, last.out.price)

\* C25 for the requests with a volatility above zero
C25_PositiveSigma ==
    (AmericanPriced /\ last.args.sigma > 0)
        => AtLeastIntrinsic(last.args, last.out.layers, last.out.price)

(* --------------------- properties: the fit result ---------------------- *)

\* the positions of a request whose x and y are both finite
FinitePairs(req) == {i \in DOMAIN req.x : isfinite(req.x[i]) /\ isfinite(req.y[i])}

\* C26: in every successful curve_fit result, data_points is >= 3 and
\* data_points + outliers_removed equals the number of input pairs whose x
\* and y are both finite: pairs dropped for NaN/Inf are not counted as
\* outliers, and outliers_removed is 0 whenever the outlier filter fell back
\* to keeping all points.
C26_PointCounts ==
    (last.op = "fit" /\ last.status = "ok") =>
        /\ last.data_points >= 3
        /\ last.outliers_removed >= 0
        /\ last.data_points + last.outliers_removed
                = Cardinality(FinitePairs(last.req))
        /\ last.branch # "filtered" => last.outliers_removed = 0

\* C26 witness: of five pairs one was dropped for NaN/Inf, the filter ran on
\* the four finite ones and the result counts four points and no outlier
C26_Witness ==
    /\ last.op = "fit"
    /\ last.status = "ok"
    /\ Len(last.req.x) = 5
    /\ Cardinality(FinitePairs(last.req)) = 4
    /\ last.branch # "mad_zero"
    /\ last.data_points = 4
    /\ last.outliers_removed = 0

\* the parameter count k each fitter hands to the metric calculator
ParamCount(fit) ==
    CASE fit.family = "polynomial" -> fit.degree + 1
      [] fit.family = "exponential" -> 3
      [] fit.family = "logarithmic" -> 2
      [] fit.family = "power" -> 2
      [] fit.family = "sigmoid" -> 4

\* C27: the metric calculator returns R^2 = 0 whenever SST < 1e-10, whatever
\* SSE is (so a constant target fitted exactly reports R^2 = 0, not 1), and
\* AIC = -infinity whenever SSE < 1e-10, whatever n and the parameter count
\* k are; otherwise R^2 = 1 - SSE/SST and AIC = n*ln(SSE/n) + 2k.  It never
\* divides by a zero SST and never takes ln(0).
C27_MetricPolicy ==
    (last.op = "fit" /\ last.ran_fitters) =>
        \A c \in DOMAIN last.candidates :
            last.candidates[c].ok =>
                LET fit == last.candidates[c].fit
                    y == fit.params.y
                    sse == fit.params.sse
                    n == Len(y)
                    k == ParamCount(fit)
                IN  /\ sse.k \in {"zero", "lvl", "nan"}
                    /\ SstZero(y) => fit.r_squared = "0.0"
                    /\ ~SstZero(y) =>
                          fit.r_squared = (IF sse.k = "nan" THEN "nan"
                                           ELSE IF sse.k = "zero" THEN "1.0"
                                           ELSE "1-sse/sst")
                    /\ sse.k = "zero" => fit.aic = NegInf
                    /\ sse.k = "lvl" => fit.aic = Fin(n * sse.v + 2 * k)
                    /\ sse.k = "nan" => fit.aic = NaN

\* C27 witness: a constant target fitted exactly is stored with R^2 = 0 and
\* AIC = -infinity
C27_Witness ==
    /\ last.op = "fit"
    /\ last.status = "ok"
    /\ SstZero(last.best.params.y)
    /\ last.best.params.sse = Zero
    /\ last.best.r_squared = "0.0"
    /\ last.best.aic = NegInf

(* --------------------- properties: cross_signal ------------------------ *)

\* the simple moving average of window w at position t; nan where fewer
\* than w prices end at t
SmaAt(prices, w, t) == IF t < w THEN QNaN ELSE MeanOf(prices, t - w + 1, t)

\* a cross_signal call whose two windows fit the series
CrossCall ==
    /\ IndicatorCall
    /\ last.args.indicator = "cross_signal"
    /\ 1 <= last.args.short_window /\ last.args.short_window <= Len(last.args.prices)
    /\ 1 <= last.args.long_window /\ last.args.long_window <= Len(last.args.prices)

\* the signal is the one the last two positions of the two averages decide
SignalDecided ==
    LET a == last.args
        n == Len(a.prices)
        prev_short == SmaAt(a.prices, a.short_window, n - 1)
        prev_long == SmaAt(a.prices, a.long_window, n - 1)
        current_short == SmaAt(a.prices, a.short_window, n)
        current_long == SmaAt(a.prices, a.long_window, n)
        death == QLt(prev_long, prev_short) /\ QLt(current_short, current_long)
        golden == QLt(prev_short, prev_long) /\ QLt(current_long, current_short)
    IN  /\ last.status = "ok"
        /\ last.out.signal \in {"death_cross", "golden_cross", "neutral"}
        /\ last.out.signal = "death_cross" <=> death
        /\ last.out.signal = "golden_cross" <=> golden
        /\ last.out.signal = "neutral" <=> ~death /\ ~golden
        /\ n = a.long_window => last.out.signal = "neutral"

\* C28: cross_signal returns exactly one of 'death_cross', 'golden_cross',
\* 'neutral', decided only by the short and long SMAs at the last two
\* positions: 'death_cross' iff previous short > previous long and current
\* short < current long; 'golden_cross' iff previous short < previous long
\* and current short > current long; 'neutral' otherwise, in particular
\* whenever the series has exactly long_window prices.
C28_CrossSignal == CrossCall => SignalDecided

\* C28 for the series of two or more prices
C28_TwoOrMorePrices == (CrossCall /\ Len(last.args.prices) >= 2) => SignalDecided

(* ------------------- properties: frame of the store -------------------- *)

\* the step is a curve_fit call that succeeded
FitSucceeds == last'.op = "fit" /\ last'.status = "ok"

\* the step adds one entry to the store and leaves the others as they were
AddsOneEntry ==
    /\ Cardinality(DOMAIN fitted_models') = Cardinality(DOMAIN fitted_models) + 1
    /\ \A id \in DOMAIN fitted_models :
          id \in DOMAIN fitted_models' /\ fitted_models'[id] = fitted_models[id]

\* C29: only a successful curve_fit changes the fitted-model store, and only
\* by adding one entry: every curve_predict call (successful, 'not found', or
\* 'Prediction failed') and every rejected curve_fit call (validation error
\* or 'Could not fit any model') leaves the store exactly as it was before
\* the call.
C29_StoreFrame ==
    [][/\ fitted_models' # fitted_models => FitSucceeds /\ AddsOneEntry
       /\ ~FitSucceeds => fitted_models' = fitted_models]_vars

\* C29 without the manner of the change: a step that is no successful
\* curve_fit leaves the store as it was
C29_OnlyFitWrites == [][~FitSucceeds => fitted_models' = fitted_models]_vars

(* ---------------------- properties: the registry ----------------------- *)

\* every registered tool name is owned by exactly one capability, which is
\* registered and has the tool among its own
ToolsOwned ==
    /\ DOMAIN tool_to_capability = DOMAIN tools
    /\ \A t \in DOMAIN tools :
          /\ tool_to_capability[t] \in DOMAIN capabilities
          /\ tools[t].of = capabilities[tool_to_capability[t]]
          /\ \E i \in DOMAIN tools[t].of.tools : tools[t].of.tools[i] = t

\* the step is a register_capability call that raised ValueError
RegisterRaises ==
    /\ last'.op = "register_capability"
    /\ last'.status = "error"
    /\ last'.exc = "ValueError"

\* C30: after any sequence of ToolRegistry.register_capability calls, every
\* registered tool name is owned by exactly one capability that is itself
\* registered, and a call that raises ValueError (capability name already
\* registered, or one of its tool names already registered) leaves the
\* registry's capabilities and tools exactly as they were before the call.
C30_RegistryAtomic ==
    [][/\ ToolsOwned'
       /\ RegisterRaises => UNCHANGED registry]_vars

\* C30 without the frame of a failed call: ownership alone
C30_ToolsOwned == ToolsOwned

====
